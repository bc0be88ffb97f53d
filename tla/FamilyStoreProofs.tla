-------------------------- MODULE FamilyStoreProofs --------------------------
(***************************************************************************)
(* What holds of FamilyStore for every value of its constants.             *)
(*                                                                         *)
(* The fold and the abstract history are recursive functions over          *)
(* sequences.  What they compute is proved with SetInduction, the          *)
(* induction principle of the naturals stated of a set instead of a        *)
(* predicate, and Recursion, which says that a recursive function over an  *)
(* initial segment exists.                                                 *)
(***************************************************************************)
EXTENDS FamilyStore, FiniteSetTheorems, SequenceTheorems, TLAPS

-----------------------------------------------------------------------------
(* Induction and recursion *)

(* A set that holds 0 and the successor of each of its naturals holds them  *)
(* all: of the sets of outsiders up to an outsider one is minimal, and that *)
(* up to its predecessor is smaller.                                        *)
LEMMA SetInduction ==
  ASSUME NEW S, 0 \in S, \A n \in Nat : n \in S => n + 1 \in S
  PROVE  Nat \subseteq S
<1> SUFFICES ASSUME NEW m \in Nat, m \notin S
             PROVE  FALSE
  OBVIOUS
<1> DEFINE Up(x) == {y \in 0 .. x : y \notin S}
           F == {Up(x) : x \in {y \in 0 .. m : y \notin S}}
<1>1. IsFiniteSet(0 .. m)
  BY FS_Interval
<1>2. F \subseteq FiniteSubsetsOf(0 .. m)
  <2>1. \A x \in 0 .. m : Up(x) \subseteq 0 .. m
    OBVIOUS
  <2>2. \A x \in 0 .. m : IsFiniteSet(Up(x))
    BY <1>1, <2>1, FS_Subset
  <2>3. QED  BY <2>1, <2>2 DEF FiniteSubsetsOf
<1>3. F # {}
  <2>1. Up(m) \in F
    OBVIOUS
  <2> HIDE DEF F
  <2>2. QED  BY <2>1
<1>4. PICK U \in F : \A V \in F : ~(<<V, U>> \in StrictSubsetOrdering(0 .. m))
  <2> HIDE DEF F
  <2>1. QED  BY <1>1, <1>2, <1>3, FS_StrictSubsetOrderingWellFounded, WFMin
<1>5. PICK x \in 0 .. m : x \notin S /\ U = Up(x)
  OBVIOUS
<1>6. x # 0 /\ x - 1 \in Nat /\ x - 1 \in 0 .. m /\ x - 1 \notin S
  BY <1>5
<1>7. Up(x - 1) \in F
  BY <1>6
<1>8. Up(x - 1) \subseteq Up(x) /\ x \in Up(x) /\ x \notin Up(x - 1)
  BY <1>5, <1>6
<1>9. <<Up(x - 1), U>> \in StrictSubsetOrdering(0 .. m)
  BY <1>5, <1>6, <1>8 DEF StrictSubsetOrdering
<1>10. QED  BY <1>4, <1>7, <1>9

(* A function over an initial segment that is given its first value and the *)
(* step to each next one exists.                                            *)
LEMMA Recursion ==
  ASSUME NEW X, NEW start \in X, NEW size \in Nat,
         NEW step \in [1 .. size -> [X -> X]]
  PROVE  \E f \in [0 .. size -> X] :
           f[0] = start /\ \A n \in 1 .. size : f[n] = step[n][f[n - 1]]
<1> DEFINE Good(f, m) == /\ f \in [0 .. m -> X]
                         /\ f[0] = start
                         /\ \A n \in 1 .. m : f[n] = step[n][f[n - 1]]
           S == {m \in Nat : m <= size => \E f \in [0 .. m -> X] : Good(f, m)}
<1>1. 0 \in S
  <2>1. Good([n \in 0 .. 0 |-> start], 0)
    OBVIOUS
  <2>2. QED  BY <2>1
<1>2. ASSUME NEW m \in Nat, m \in S
      PROVE  m + 1 \in S
  <2> HIDE DEF Good
  <2> SUFFICES ASSUME m + 1 <= size
               PROVE  \E f \in [0 .. m + 1 -> X] : Good(f, m + 1)
    OBVIOUS
  <2>1. PICK f \in [0 .. m -> X] : Good(f, m)
    BY <1>2
  <2> USE DEF Good
  <2> DEFINE g == [n \in 0 .. m + 1 |-> IF n = m + 1 THEN step[m + 1][f[m]] ELSE f[n]]
  <2>2. step[m + 1][f[m]] \in X
    OBVIOUS
  <2>3. g \in [0 .. m + 1 -> X]
    BY <2>2
  <2>4. g[0] = start /\ \A n \in 0 .. m : g[n] = f[n]
    BY <2>1
  <2>5. g[m + 1] = step[m + 1][g[m]]
    <3>1. g[m] = f[m]
      BY <2>4
    <3>2. g[m + 1] = step[m + 1][f[m]]
      OBVIOUS
    <3>3. QED  BY <3>1, <3>2
  <2>6. \A n \in 1 .. m : g[n] = step[n][g[n - 1]]
    BY <2>1, <2>4
  <2>7. Good(g, m + 1)
    <3> HIDE DEF g
    <3>1. ASSUME NEW n \in 1 .. m + 1
          PROVE  g[n] = step[n][g[n - 1]]
      <4>1. CASE n = m + 1
        BY <2>5, <4>1
      <4>2. CASE n \in 1 .. m
        BY <2>6, <4>2
      <4>3. QED  BY <4>1, <4>2
    <3>2. QED  BY <2>3, <2>4, <3>1
  <2>8. QED  BY <2>3, <2>7
<1>3. size \in S
  <2> HIDE DEF S
  <2>1. QED  BY <1>1, <1>2, SetInduction
<1>4. PICK f \in [0 .. size -> X] : Good(f, size)
  BY <1>3
<1>5. QED  BY <1>4

(* Induction up to a bound. *)
LEMMA UpTo ==
  ASSUME NEW size \in Nat, NEW S, 0 \in S,
         \A n \in Nat : n < size /\ n \in S => n + 1 \in S
  PROVE  \A n \in 0 .. size : n \in S
<1> DEFINE R == {n \in Nat : n <= size => n \in S}
<1>1. 0 \in R /\ \A n \in Nat : n \in R => n + 1 \in R
  OBVIOUS
<1>2. Nat \subseteq R
  <2> HIDE DEF R
  <2>1. QED  BY <1>1, SetInduction
<1>3. QED  BY <1>2

-----------------------------------------------------------------------------
(* The fold *)

ViewKeys == Families \X Schemas \X RecordKeys

Versions == Families \X Schemas

Lookup(view, vk) == IF vk \in DOMAIN view.payloads THEN view.payloads[vk] ELSE Absent

\* A view has finitely many keys, and knows the table of the version of each.
Views ==
  {view \in [payloads : UNION {[D -> Records \cup {Absent}] : D \in SUBSET ViewKeys},
             tables : UNION {[D -> Tables] : D \in SUBSET Versions}] :
     /\ IsFiniteSet(DOMAIN view.payloads)
     /\ \A vk \in DOMAIN view.payloads : <<vk[1], vk[2]>> \in DOMAIN view.tables}

OnKey(operation, vk) == ViewKey(operation.identity, operation.key) = vk

(* What a view is made of. *)
LEMMA ViewFields ==
  ASSUME NEW view \in Views
  PROVE  /\ DOMAIN view.payloads \subseteq ViewKeys
         /\ view.payloads \in [DOMAIN view.payloads -> Records \cup {Absent}]
         /\ DOMAIN view.tables \subseteq Versions
         /\ view.tables \in [DOMAIN view.tables -> Tables]
         /\ IsFiniteSet(DOMAIN view.payloads)
         /\ \A vk \in DOMAIN view.payloads : <<vk[1], vk[2]>> \in DOMAIN view.tables
  BY DEF Views

(* And how one is put together. *)
LEMMA ViewMade ==
  ASSUME NEW D \in SUBSET ViewKeys, NEW p \in [D -> Records \cup {Absent}],
         NEW E \in SUBSET Versions, NEW s \in [E -> Tables],
         IsFiniteSet(D), \A vk \in D : <<vk[1], vk[2]>> \in E
  PROVE  [payloads |-> p, tables |-> s] \in Views
  BY DEF Views

(* What an operation is made of. *)
LEMMA OperationFields ==
  ASSUME NEW operation \in Operations
  PROVE  /\ operation.identity \in Identities
         /\ operation.identity.family \in Families
         /\ operation.identity.schema \in Schemas
         /\ operation.identity.table \in Tables
         /\ operation.key \in RecordKeys
         /\ operation.payload \in Records \cup {Absent}
         /\ Version(operation.identity) \in Versions
         /\ ViewKey(operation.identity, operation.key) \in ViewKeys
  BY DEF Operations, Identities, Version, Versions, ViewKey, ViewKeys

(* One operation sets the payload of its key and declares its version. *)
LEMMA ApplyOperationType ==
  ASSUME NEW view \in Views, NEW operation \in Operations
  PROVE  /\ ApplyOperation(view, operation) \in Views
         /\ \A vk : Lookup(ApplyOperation(view, operation), vk) =
              IF OnKey(operation, vk) THEN operation.payload ELSE Lookup(view, vk)
         /\ \A version \in DOMAIN ApplyOperation(view, operation).tables :
              \/ /\ version \in DOMAIN view.tables
                 /\ ApplyOperation(view, operation).tables[version] = view.tables[version]
              \/ /\ version = Version(operation.identity)
                 /\ ApplyOperation(view, operation).tables[version] = operation.identity.table
<1> DEFINE touched == ViewKey(operation.identity, operation.key)
           D == DOMAIN view.payloads \cup {touched}
           p == [vk \in D |-> IF vk = touched THEN operation.payload ELSE view.payloads[vk]]
           s == Declare(view.tables, operation.identity)
<1>1. ApplyOperation(view, operation) = [payloads |-> p, tables |-> s]
  BY DEF ApplyOperation
<1>2. D \in SUBSET ViewKeys /\ IsFiniteSet(D)
  BY ViewFields, OperationFields, FS_AddElement
<1>3. p \in [D -> Records \cup {Absent}]
  BY ViewFields, OperationFields
<1>4. /\ DOMAIN s = DOMAIN view.tables \cup {Version(operation.identity)}
      /\ s \in [DOMAIN s -> Tables]
      /\ \A version \in DOMAIN s :
           \/ version \in DOMAIN view.tables /\ s[version] = view.tables[version]
           \/ version = Version(operation.identity) /\ s[version] = operation.identity.table
  <2>1. CASE Version(operation.identity) \in DOMAIN view.tables
    BY <2>1, ViewFields DEF Declare
  <2>2. CASE Version(operation.identity) \notin DOMAIN view.tables
    BY <2>2, ViewFields, OperationFields DEF Declare
  <2>3. QED  BY <2>1, <2>2
<1>5. \A vk \in D : <<vk[1], vk[2]>> \in DOMAIN s
  <2>1. <<touched[1], touched[2]>> = Version(operation.identity)
    BY DEF ViewKey, Version
  <2>2. QED  BY <1>4, <2>1, ViewFields
<1>6. DOMAIN s \in SUBSET Versions
  BY <1>4, ViewFields, OperationFields
<1>7. [payloads |-> p, tables |-> s] \in Views
  <2> HIDE DEF D, p, s
  <2>1. QED  BY <1>2, <1>3, <1>4, <1>5, <1>6, ViewMade
<1>8. \A vk : Lookup(ApplyOperation(view, operation), vk) =
                IF OnKey(operation, vk) THEN operation.payload ELSE Lookup(view, vk)
  BY <1>1 DEF Lookup, OnKey
<1>9. QED  BY <1>1, <1>4, <1>7, <1>8

(* The image of a finite set is finite. *)
LEMMA FiniteImage ==
  ASSUME NEW S, NEW f, f = [x \in S |-> f[x]], IsFiniteSet(S)
  PROVE  IsFiniteSet({f[x] : x \in S})
<1> DEFINE T == {f[x] : x \in S}
<1>1. f \in Surjection(S, T)
  BY DEF Surjection
<1>2. QED  BY <1>1, FS_Surjection

\* ApplyOperations up to one of the operations.
FoldTo(view, operations, size) ==
  LET after[n \in 0 .. size] ==
        IF n = 0 THEN view ELSE ApplyOperation(after[n - 1], operations[n])
  IN  after[size]

(* The recursion of FoldTo, up to each size at once. *)
LEMMA FoldToSteps ==
  ASSUME NEW view \in Views, NEW size \in Nat, NEW operations,
         \A n \in 1 .. size : operations[n] \in Operations
  PROVE  /\ FoldTo(view, operations, 0) = view
         /\ \A n \in 1 .. size : FoldTo(view, operations, n) =
              ApplyOperation(FoldTo(view, operations, n - 1), operations[n])
         /\ \A n \in 0 .. size : FoldTo(view, operations, n) \in Views
<1> DEFINE step == [n \in 1 .. size |-> [v \in Views |-> ApplyOperation(v, operations[n])]]
<1>1. step \in [1 .. size -> [Views -> Views]]
  BY ApplyOperationType
<1>2. PICK f \in [0 .. size -> Views] :
        f[0] = view /\ \A n \in 1 .. size : f[n] = step[n][f[n - 1]]
  <2>1. view \in Views /\ size \in Nat
    OBVIOUS
  <2> HIDE DEF step
  <2>2. QED  BY ONLY <1>1, <2>1, Recursion
<1>3. f[0] = view /\ \A n \in 1 .. size : f[n] = ApplyOperation(f[n - 1], operations[n])
  <2>1. f[0] = view
    BY <1>2
  <2>2. ASSUME NEW n \in 1 .. size
        PROVE  f[n] = ApplyOperation(f[n - 1], operations[n])
    <3>1. n - 1 \in 0 .. size
      OBVIOUS
    <3>2. f[n - 1] \in Views
      BY <3>1
    <3>3. QED  BY <1>2, <3>2
  <2>3. QED  BY <2>1, <2>2
<1> HIDE DEF step
<1>4. ASSUME NEW m \in 0 .. size
      PROVE  FoldTo(view, operations, m) = f[m]
  <2> DEFINE After(g) == g = [n \in 0 .. m |-> IF n = 0 THEN view
                                 ELSE ApplyOperation(g[n - 1], operations[n])]
             h == [n \in 0 .. m |-> f[n]]
             g == CHOOSE x : After(x)
  <2>1. After(h)
    <3>1. \A n \in 0 .. m : h[n] = IF n = 0 THEN view
                                   ELSE ApplyOperation(h[n - 1], operations[n])
      BY <1>3
    <3>2. QED  BY <3>1
  <2>2. After(g)
    <3> HIDE DEF h, After
    <3>1. QED  BY <2>1
  <2>3. FoldTo(view, operations, m) = g[m]
    BY DEF FoldTo
  <2> HIDE DEF g, h
  <2> DEFINE S == {n \in Nat : n <= m => g[n] = f[n]}
  <2>4. 0 \in S
    BY <1>3, <2>2
  <2>5. ASSUME NEW n \in Nat, n < m, n \in S
        PROVE  n + 1 \in S
    BY <1>3, <2>2, <2>5
  <2>6. m \in S
    <3> HIDE DEF S
    <3>1. m \in Nat
      OBVIOUS
    <3>2. \A n \in 0 .. m : n \in S
      BY ONLY <2>4, <2>5, <3>1, UpTo
    <3>3. QED  BY <3>1, <3>2
  <2>7. QED  BY <2>3, <2>6
<1>5. ASSUME NEW n \in 1 .. size
      PROVE  FoldTo(view, operations, n) =
               ApplyOperation(FoldTo(view, operations, n - 1), operations[n])
  <2>1. n \in 0 .. size /\ n - 1 \in 0 .. size
    OBVIOUS
  <2>2. QED  BY <1>3, <1>4, <2>1
<1>6. 0 \in 0 .. size
  OBVIOUS
<1>7. QED  BY <1>3, <1>4, <1>5, <1>6

LEMMA ApplyOperationsIsFoldTo ==
  ASSUME NEW view, NEW operations
  PROVE  ApplyOperations(view, operations) = FoldTo(view, operations, Len(operations))
  BY Zenon DEF ApplyOperations, FoldTo

(* Applying all the operations of an entry. *)
LEMMA ApplyOperationsType ==
  ASSUME NEW view \in Views, NEW operations \in Seq(Operations)
  PROVE  ApplyOperations(view, operations) \in Views
<1>1. Len(operations) \in Nat /\ \A n \in 1 .. Len(operations) : operations[n] \in Operations
  BY LenProperties, ElementOfSeq
<1>2. ASSUME NEW size \in Nat, \A n \in 1 .. size : operations[n] \in Operations
      PROVE  FoldTo(view, operations, size) \in Views
  <2>1. \A n \in 0 .. size : FoldTo(view, operations, n) \in Views
    BY <1>2, FoldToSteps
  <2>2. QED  BY <2>1
<1>3. QED  BY <1>1, <1>2, ApplyOperationsIsFoldTo

\* ApplyBodies up to one of the bodies.
FoldBodiesTo(view, bodies, size) ==
  LET after[n \in 0 .. size] ==
        IF n = 0 THEN view ELSE ApplyOperations(after[n - 1], bodies[n].operations)
  IN  after[size]

Foldable(bodies, size) == \A n \in 1 .. size : bodies[n].operations \in Seq(Operations)

(* The recursion of FoldBodiesTo, up to each size at once. *)
LEMMA FoldBodiesToSteps ==
  ASSUME NEW view \in Views, NEW size \in Nat, NEW bodies, Foldable(bodies, size)
  PROVE  /\ FoldBodiesTo(view, bodies, 0) = view
         /\ \A n \in 1 .. size : FoldBodiesTo(view, bodies, n) =
              ApplyOperations(FoldBodiesTo(view, bodies, n - 1), bodies[n].operations)
         /\ \A n \in 0 .. size : FoldBodiesTo(view, bodies, n) \in Views
<1> USE DEF Foldable
<1> DEFINE step == [n \in 1 .. size |->
                      [v \in Views |-> ApplyOperations(v, bodies[n].operations)]]
<1>1. step \in [1 .. size -> [Views -> Views]]
  BY ApplyOperationsType
<1>2. PICK f \in [0 .. size -> Views] :
        f[0] = view /\ \A n \in 1 .. size : f[n] = step[n][f[n - 1]]
  <2>1. view \in Views /\ size \in Nat
    OBVIOUS
  <2> HIDE DEF step
  <2>2. QED  BY ONLY <1>1, <2>1, Recursion
<1>3. /\ f[0] = view
      /\ \A n \in 1 .. size : f[n] = ApplyOperations(f[n - 1], bodies[n].operations)
  <2>1. f[0] = view
    BY <1>2
  <2>2. ASSUME NEW n \in 1 .. size
        PROVE  f[n] = ApplyOperations(f[n - 1], bodies[n].operations)
    <3>1. n - 1 \in 0 .. size
      OBVIOUS
    <3>2. f[n - 1] \in Views
      BY <3>1
    <3>3. QED  BY <1>2, <3>2
  <2>3. QED  BY <2>1, <2>2
<1> HIDE DEF step
<1>4. ASSUME NEW m \in 0 .. size
      PROVE  FoldBodiesTo(view, bodies, m) = f[m]
  <2> DEFINE After(g) == g = [n \in 0 .. m |-> IF n = 0 THEN view
                                 ELSE ApplyOperations(g[n - 1], bodies[n].operations)]
             h == [n \in 0 .. m |-> f[n]]
             g == CHOOSE x : After(x)
  <2>1. After(h)
    <3>1. \A n \in 0 .. m : h[n] = IF n = 0 THEN view
                                   ELSE ApplyOperations(h[n - 1], bodies[n].operations)
      BY <1>3
    <3>2. QED  BY <3>1
  <2>2. After(g)
    <3> HIDE DEF h, After
    <3>1. QED  BY <2>1
  <2>3. FoldBodiesTo(view, bodies, m) = g[m]
    BY DEF FoldBodiesTo
  <2> HIDE DEF g, h
  <2> DEFINE S == {n \in Nat : n <= m => g[n] = f[n]}
  <2>4. 0 \in S
    BY <1>3, <2>2
  <2>5. ASSUME NEW n \in Nat, n < m, n \in S
        PROVE  n + 1 \in S
    BY <1>3, <2>2, <2>5
  <2>6. m \in S
    <3> HIDE DEF S
    <3>1. m \in Nat
      OBVIOUS
    <3>2. \A n \in 0 .. m : n \in S
      BY ONLY <2>4, <2>5, <3>1, UpTo
    <3>3. QED  BY <3>1, <3>2
  <2>7. QED  BY <2>3, <2>6
<1>5. ASSUME NEW n \in 1 .. size
      PROVE  FoldBodiesTo(view, bodies, n) =
               ApplyOperations(FoldBodiesTo(view, bodies, n - 1), bodies[n].operations)
  <2>1. n \in 0 .. size /\ n - 1 \in 0 .. size
    OBVIOUS
  <2>2. QED  BY <1>3, <1>4, <2>1
<1>6. 0 \in 0 .. size
  OBVIOUS
<1>7. QED  BY <1>3, <1>4, <1>5, <1>6

LEMMA ApplyBodiesIsFoldBodiesTo ==
  ASSUME NEW view, NEW bodies
  PROVE  ApplyBodies(view, bodies) = FoldBodiesTo(view, bodies, Len(bodies))
  BY Zenon DEF ApplyBodies, FoldBodiesTo

LEMMA FoldBodiesStep ==
  ASSUME NEW view \in Views, NEW size \in Nat, NEW bodies, Foldable(bodies, size),
         NEW n \in Nat, NEW next \in 1 .. size, next = n + 1
  PROVE  FoldBodiesTo(view, bodies, next)
           = ApplyOperations(FoldBodiesTo(view, bodies, n), bodies[next].operations)
<1>1. \A m \in 1 .. size : FoldBodiesTo(view, bodies, m) =
        ApplyOperations(FoldBodiesTo(view, bodies, m - 1), bodies[m].operations)
  BY FoldBodiesToSteps
<1>2. next - 1 = n
  OBVIOUS
<1>3. QED  BY <1>1, <1>2

LEMMA ApplyBodiesType ==
  ASSUME NEW view \in Views, NEW bodies \in Seq(Bodies)
  PROVE  ApplyBodies(view, bodies) \in Views
<1>1. Len(bodies) \in Nat /\ \A n \in 1 .. Len(bodies) : bodies[n] \in Bodies
  BY LenProperties, ElementOfSeq
<1>2. ASSUME NEW size \in Nat, Foldable(bodies, size)
      PROVE  FoldBodiesTo(view, bodies, size) \in Views
  <2>1. \A n \in 0 .. size : FoldBodiesTo(view, bodies, n) \in Views
    BY <1>2, FoldBodiesToSteps
  <2>2. QED  BY <2>1
<1>3. Foldable(bodies, Len(bodies))
  BY <1>1 DEF Bodies, Foldable
<1>4. QED  BY <1>1, <1>2, <1>3, ApplyBodiesIsFoldBodiesTo

(* The view a checkpoint's rows load to. *)
LEMMA ViewOfRowsType ==
  ASSUME NEW source \in SUBSET ViewRows, IsFiniteSet(source)
  PROVE  /\ ViewOfRows(source) \in Views
         /\ DOMAIN ViewOfRows(source).payloads =
              {ViewKey(row.identity, row.key) : row \in source}
         /\ \A vk \in DOMAIN ViewOfRows(source).payloads : \E row \in source :
              /\ ViewKey(row.identity, row.key) = vk
              /\ ViewOfRows(source).payloads[vk] = row.payload
         /\ \A version \in DOMAIN ViewOfRows(source).tables : \E row \in source :
              /\ Version(row.identity) = version
              /\ ViewOfRows(source).tables[version] = row.identity.table
<1> DEFINE D == {ViewKey(row.identity, row.key) : row \in source}
           E == {Version(row.identity) : row \in source}
           p == [vk \in D |->
                   (CHOOSE row \in source : ViewKey(row.identity, row.key) = vk).payload]
           s == [version \in E |->
                   (CHOOSE row \in source : Version(row.identity) = version).identity.table]
<1>1. ViewOfRows(source) = [payloads |-> p, tables |-> s]
  BY DEF ViewOfRows
<1>2. \A row \in source :
        /\ row.identity \in Identities /\ row.identity.table \in Tables
        /\ row.payload \in Records
        /\ Version(row.identity) \in Versions
        /\ ViewKey(row.identity, row.key) \in ViewKeys
        /\ Version(row.identity) =
             <<ViewKey(row.identity, row.key)[1], ViewKey(row.identity, row.key)[2]>>
  BY DEF ViewRows, Identities, Version, Versions, ViewKey, ViewKeys
<1>3. D \in SUBSET ViewKeys /\ E \in SUBSET Versions /\ IsFiniteSet(D)
  <2>1. IsFiniteSet(D)
    <3> DEFINE keyOf == [row \in source |-> ViewKey(row.identity, row.key)]
    <3>1. IsFiniteSet({keyOf[row] : row \in source})
      BY FiniteImage
    <3>2. QED  BY <3>1
  <2>2. QED  BY <1>2, <2>1
<1>4. ASSUME NEW vk \in D
      PROVE  \E row \in source : ViewKey(row.identity, row.key) = vk /\ p[vk] = row.payload
  <2>1. \E row \in source : ViewKey(row.identity, row.key) = vk
    OBVIOUS
  <2>2. QED  BY <2>1
<1>5. ASSUME NEW version \in E
      PROVE  \E row \in source :
               Version(row.identity) = version /\ s[version] = row.identity.table
  <2>1. \E row \in source : Version(row.identity) = version
    OBVIOUS
  <2>2. QED  BY <2>1
<1>6. DOMAIN p = D /\ DOMAIN s = E
  OBVIOUS
<1>7. \A vk \in D : <<vk[1], vk[2]>> \in E
  BY <1>2
<1>8. p \in [D -> Records \cup {Absent}]
  <2>1. p = [vk \in D |-> p[vk]]
    OBVIOUS
  <2> HIDE DEF p
  <2>2. QED  BY <1>2, <1>4, <2>1
<1>9. s \in [E -> Tables]
  <2>1. s = [version \in E |-> s[version]]
    OBVIOUS
  <2> HIDE DEF s
  <2>2. QED  BY <1>2, <1>5, <2>1
<1> HIDE DEF D, E, p, s
<1>10. [payloads |-> p, tables |-> s] \in Views
  BY <1>3, <1>7, <1>8, <1>9, ViewMade
<1>11. D = {ViewKey(row.identity, row.key) : row \in source}
  BY DEF D
<1>12. QED  BY <1>1, <1>4, <1>5, <1>6, <1>10, <1>11

-----------------------------------------------------------------------------
(* What is folded and what becomes of it *)

LEMMA BodiesOfType ==
  ASSUME NEW entries \in Seq(Entries)
  PROVE  /\ BodiesOf(entries) \in Seq(Bodies)
         /\ Len(BodiesOf(entries)) = Len(entries)
         /\ \A n \in 1 .. Len(entries) : BodiesOf(entries)[n] = entries[n].body
<1>1. /\ Len(entries) \in Nat /\ DOMAIN entries = 1 .. Len(entries)
      /\ \A n \in 1 .. Len(entries) : entries[n] \in Entries
  BY LenProperties, ElementOfSeq
<1>2. \A n \in 1 .. Len(entries) : entries[n].body \in Bodies
  BY <1>1 DEF Entries
<1>3. BodiesOf(entries) \in [1 .. Len(entries) -> Bodies]
  BY <1>1, <1>2 DEF BodiesOf
<1>4. BodiesOf(entries) \in Seq(Bodies)
  BY <1>1, <1>3
<1>5. DOMAIN BodiesOf(entries) = 1 .. Len(entries)
  BY <1>3
<1>6. Len(BodiesOf(entries)) = Len(entries)
  BY <1>1, <1>4, <1>5, LenProperties
<1>7. QED  BY <1>1, <1>4, <1>6 DEF BodiesOf

LEMMA FoldType ==
  ASSUME NEW source \in SUBSET ViewRows, IsFiniteSet(source), NEW entries \in Seq(Entries)
  PROVE  Fold(source, entries) \in Views
  BY ViewOfRowsType, BodiesOfType, ApplyBodiesType DEF Fold

\* Where the suffix of a log begins.
CoveredBy(entries, after) == {n \in DOMAIN entries : entries[n].body.sequence <= after}

LEMMA SuffixType ==
  ASSUME NEW entries \in Seq(Entries), NEW after \in Nat
  PROVE  /\ Suffix(entries, after) \in Seq(Entries)
         /\ Cardinality(CoveredBy(entries, after)) \in Nat
         /\ Len(Suffix(entries, after)) =
              IF Cardinality(CoveredBy(entries, after)) + 1 <= Len(entries)
                THEN Len(entries) - Cardinality(CoveredBy(entries, after)) ELSE 0
         /\ \A n \in DOMAIN Suffix(entries, after) :
              /\ Cardinality(CoveredBy(entries, after)) + n \in DOMAIN entries
              /\ Suffix(entries, after)[n]
                   = entries[Cardinality(CoveredBy(entries, after)) + n]
<1> DEFINE covered == CoveredBy(entries, after)
           c == Cardinality(covered)
<1>1. /\ Len(entries) \in Nat /\ DOMAIN entries = 1 .. Len(entries)
      /\ \A n \in 1 .. Len(entries) : entries[n] \in Entries
  BY LenProperties, ElementOfSeq
<1>2. c \in Nat
  <2>1. IsFiniteSet(1 .. Len(entries)) /\ covered \subseteq 1 .. Len(entries)
    BY <1>1, FS_Interval DEF CoveredBy
  <2>2. QED  BY <2>1, FS_Subset, FS_CardinalityType
<1>3. Suffix(entries, after) = SubSeq(entries, c + 1, Len(entries))
  BY DEF Suffix, CoveredBy
<1> HIDE DEF c, covered
<1>4. \A i \in c + 1 .. Len(entries) : entries[i] \in Entries
  BY <1>1, <1>2
<1>5. c + 1 \in Int /\ Len(entries) \in Int
  BY <1>1, <1>2
<1>6. /\ Suffix(entries, after) \in Seq(Entries)
      /\ Len(Suffix(entries, after)) = IF c + 1 <= Len(entries) THEN Len(entries) - c ELSE 0
      /\ \A i \in 1 .. Len(entries) - (c + 1) + 1 :
           Suffix(entries, after)[i] = entries[(c + 1) + i - 1]
  <2>1. /\ SubSeq(entries, c + 1, Len(entries)) \in Seq(Entries)
        /\ Len(SubSeq(entries, c + 1, Len(entries)))
             = IF c + 1 <= Len(entries) THEN Len(entries) - (c + 1) + 1 ELSE 0
        /\ \A i \in 1 .. Len(entries) - (c + 1) + 1 :
             SubSeq(entries, c + 1, Len(entries))[i] = entries[(c + 1) + i - 1]
    BY <1>4, <1>5, SubSeqProperties
  <2>2. QED  BY <1>1, <1>2, <1>3, <2>1
<1>7. ASSUME NEW n \in DOMAIN Suffix(entries, after)
      PROVE  c + n \in DOMAIN entries /\ Suffix(entries, after)[n] = entries[c + n]
  <2>1. n \in 1 .. Len(Suffix(entries, after))
    BY <1>6, LenProperties
  <2>2. ASSUME NEW N \in Nat, NEW M, M = IF c + 1 <= N THEN N - c ELSE 0, n \in 1 .. M
        PROVE  n \in 1 .. N - (c + 1) + 1 /\ c + n \in 1 .. N /\ (c + 1) + n - 1 = c + n
    BY <1>2, <2>2
  <2>3. /\ n \in 1 .. Len(entries) - (c + 1) + 1
        /\ c + n \in 1 .. Len(entries) /\ (c + 1) + n - 1 = c + n
    BY <1>1, <1>6, <2>1, <2>2
  <2>4. QED  BY <1>1, <1>6, <2>3
<1>8. c = Cardinality(CoveredBy(entries, after))
  BY DEF c, covered
<1>9. QED  BY <1>2, <1>6, <1>7, <1>8

(* The rows of a checkpoint made from a view. *)
LEMMA RowsOfType ==
  ASSUME NEW view \in Views
  PROVE  /\ RowsOf(view) \in SUBSET ViewRows
         /\ IsFiniteSet(RowsOf(view))
<1>1. ASSUME NEW vk \in KeptKeys(view)
      PROVE  [identity |-> Resolve(view, vk), key |-> vk[3], payload |-> view.payloads[vk]]
               \in ViewRows
  <2>1. vk \in ViewKeys /\ <<vk[1], vk[2]>> \in DOMAIN view.tables
    BY ViewFields DEF KeptKeys
  <2>2. view.payloads[vk] \in Records
    BY ViewFields DEF KeptKeys
  <2>3. view.tables[<<vk[1], vk[2]>>] \in Tables
    BY <2>1, ViewFields
  <2>4. QED  BY <2>1, <2>2, <2>3 DEF Resolve, ViewKeys, ViewRows, Identities
<1>2. IsFiniteSet(KeptKeys(view))
  BY ViewFields, FS_Subset DEF KeptKeys
<1>3. IsFiniteSet(RowsOf(view))
  <2> DEFINE rowOf == [vk \in KeptKeys(view) |->
                         [identity |-> Resolve(view, vk), key |-> vk[3],
                          payload |-> view.payloads[vk]]]
  <2>1. IsFiniteSet({rowOf[vk] : vk \in KeptKeys(view)})
    BY <1>2, FiniteImage
  <2>2. RowsOf(view) = {rowOf[vk] : vk \in KeptKeys(view)}
    BY DEF RowsOf
  <2>3. QED  BY <2>1, <2>2
<1>4. QED  BY <1>1, <1>3 DEF RowsOf

(* Writing a view over the tables. *)
LEMMA MaterializeType ==
  ASSUME NEW view \in Views, NEW r \in Rows
  PROVE  /\ Materialize(view, r) \in Rows
         /\ \A t \in Tables : IsFiniteSet({k \in RecordKeys : r[t][k] # Absent})
              => IsFiniteSet({k \in RecordKeys : Materialize(view, r)[t][k] # Absent})
<1>1. ASSUME NEW t \in Tables, NEW k \in RecordKeys
      PROVE  /\ Materialize(view, r)[t][k] \in Records \cup {Absent}
             /\ Materialize(view, r)[t][k] # Absent =>
                  r[t][k] # Absent \/ \E vk \in DOMAIN view.payloads : vk[3] = k
  <2> DEFINE kept == At(view, KeptKeys(view), t, k)
  <2>1. Materialize(view, r)[t][k] =
          IF kept # {} THEN view.payloads[CHOOSE vk \in kept : TRUE]
          ELSE IF At(view, ClearedKeys(view), t, k) # {} THEN Absent
          ELSE r[t][k]
    BY DEF Materialize
  <2>2. \A vk \in kept : vk \in DOMAIN view.payloads /\ vk[3] = k
    BY DEF At, KeptKeys
  <2>3. r[t][k] \in Records \cup {Absent}
    BY DEF Rows
  <2> HIDE DEF kept
  <2>4. kept # {} => (CHOOSE vk \in kept : TRUE) \in kept
    OBVIOUS
  <2>5. QED  BY <2>1, <2>2, <2>3, <2>4, ViewFields
<1>2. Materialize(view, r) \in Rows
  BY <1>1 DEF Materialize, Rows
<1>3. ASSUME NEW t \in Tables, IsFiniteSet({k \in RecordKeys : r[t][k] # Absent})
      PROVE  IsFiniteSet({k \in RecordKeys : Materialize(view, r)[t][k] # Absent})
  <2> DEFINE keyOf == [vk \in DOMAIN view.payloads |-> vk[3]]
             K == {keyOf[vk] : vk \in DOMAIN view.payloads}
             R == {k \in RecordKeys : r[t][k] # Absent}
             M == {k \in RecordKeys : Materialize(view, r)[t][k] # Absent}
  <2>1. IsFiniteSet(K)
    <3>1. IsFiniteSet(DOMAIN view.payloads) /\ keyOf = [vk \in DOMAIN view.payloads |-> keyOf[vk]]
      BY ViewFields
    <3> HIDE DEF keyOf
    <3>2. QED  BY <3>1, FiniteImage
  <2>2. IsFiniteSet(R \cup K)
    BY <1>3, <2>1, FS_Union
  <2>3. M \subseteq R \cup K
    BY <1>1
  <2>4. QED  BY <2>2, <2>3, FS_Subset
<1>4. QED  BY <1>2, <1>3

(* The keys of a table can be put in order. *)
LEMMA InOrderType ==
  ASSUME NEW keys, IsFiniteSet(keys)
  PROVE  /\ Cardinality(keys) \in Nat
         /\ InOrder(keys) \in [1 .. Cardinality(keys) -> keys]
         /\ \A i, j \in 1 .. Cardinality(keys) : InOrder(keys)[i] = InOrder(keys)[j] => i = j
         /\ \A k \in keys : \E i \in 1 .. Cardinality(keys) : InOrder(keys)[i] = k
<1> DEFINE N == Cardinality(keys)
           s == InOrder(keys)
<1>1. N \in Nat /\ ExistsBijection(1 .. N, keys)
  BY FS_CardinalityType
<1>2. PICK f \in Bijection(1 .. N, keys) : TRUE
  BY <1>1 DEF ExistsBijection
<1>3. f \in [1 .. N -> keys] /\ \A i, j \in 1 .. N : f[i] = f[j] => i = j
  BY <1>2 DEF Bijection, Injection, IsInjective
<1>4. s \in [1 .. N -> keys] /\ \A i, j \in DOMAIN s : s[i] = s[j] => i = j
  <2> DEFINE Ordered(x) == \A i, j \in DOMAIN x : x[i] = x[j] => i = j
  <2>1. Ordered(f)
    BY <1>3
  <2>2. s = CHOOSE x \in [1 .. N -> keys] : Ordered(x)
    BY DEF InOrder
  <2> HIDE DEF Ordered, s
  <2>3. s \in [1 .. N -> keys] /\ Ordered(s)
    BY <1>3, <2>1, <2>2
  <2>4. QED  BY <2>3 DEF Ordered
<1> HIDE DEF s
<1>5. s \in Injection(1 .. N, keys)
  BY <1>4 DEF Injection, IsInjective
<1>6. s \in Surjection(1 .. N, keys)
  <2>1. IsFiniteSet(1 .. N) /\ Cardinality(1 .. N) = N
    BY <1>1, FS_Interval
  <2> DEFINE T == {s[i] : i \in 1 .. N}
  <2>2. s \in Surjection(1 .. N, T) /\ s \in Injection(1 .. N, T) /\ T \subseteq keys
    BY <1>4 DEF Surjection, Injection, IsInjective
  <2>3. Cardinality(T) = N
    BY <2>1, <2>2, FS_Surjection
  <2>4. T = keys
    <3> HIDE DEF T
    <3>1. QED  BY <2>2, <2>3, FS_Subset
  <2>5. QED  BY <2>2, <2>4
<1>7. \A k \in keys : \E i \in 1 .. N : s[i] = k
  BY <1>6 DEF Surjection
<1>8. N = Cardinality(keys) /\ s = InOrder(keys)
  BY DEF s
<1>9. QED  BY <1>1, <1>4, <1>7, <1>8

-----------------------------------------------------------------------------
(* The process and its shapes *)

CarriedFinite ==
  /\ \A t \in Tables : IsFiniteSet(Carried(t))
  /\ IsFiniteSet(checkpoint.rows)
  /\ IsFiniteSet(exported.checkpoint.rows)

\* The component's own descriptor of a table is what memory and disk say of it.
Bound(t) ==
  /\ t \in Declared
  /\ memory[t] = Identity(Descriptor(t))
  /\ catalog[t] = memory[t]

\* The evolution reached the disk, and then its maintenance failed.
Superseded(t) ==
  /\ t \in Declared \ granted
  /\ catalog[t] = Identity(Descriptor(t))

Process ==
  /\ pc = "closed" => memory = NoCatalog /\ granted = {}
  /\ pc # "closed" => \A t \in Tables : memory[t] = catalog[t] \/ Superseded(t)
  /\ \A t \in granted : Bound(t)
  /\ pending # NoPending =>
       /\ pc \in {"maintain", "compact"}
       /\ pending.table \notin granted
       /\ Bound(pending.table)
  /\ pc \in {"maintain", "compact"} /\ pending = NoPending => granted = Declared

WellFormed(operation) ==
  /\ operation.kind = "Retract" <=> operation.payload = Absent
  /\ operation.kind # "Retract" =>
       operation.payload.schema = operation.identity.schema

Named(body) ==
  \A i \in DOMAIN body.operations :
    /\ WellFormed(body.operations[i])
    /\ body.operations[i].kind # "Retract" =>
         Version(body.operations[i].identity) \in body.stamp

EntriesNamed ==
  /\ \A n \in DOMAIN log : Named(log[n].body)
  /\ \A n \in DOMAIN exported.suffix : Named(exported.suffix[n].body)

\* The invariant of the process: what it holds is typed, and what it was
\* granted is bound on disk, in memory and in its own declaration.
Typed == TypeOK /\ CarriedFinite /\ Process /\ EntriesNamed

(* The descriptors of a release. *)
LEMMA DescriptorFields ==
  ASSUME installed \in DOMAIN Components
  PROVE  /\ Components[installed] \subseteq Descriptors
         /\ Declared \subseteq Tables
         /\ \A d \in Components[installed] :
              /\ d.table \in Declared /\ Descriptor(d.table) = d
              /\ Identity(d) \in Identities /\ Identity(d) # Absent
              /\ Identity(d).table = d.table /\ Identity(d).schema = d.schema
              /\ Identity(d).family = d.family
         /\ \A t \in Declared : /\ Descriptor(t) \in Components[installed]
                                /\ Descriptor(t).table = t
<1>1. Components[installed] \subseteq Descriptors
  <2>1. \A n \in DOMAIN Components : Components[n] \in SUBSET Descriptors
    BY ComponentAssumption, ElementOfSeq, LenProperties
  <2>2. QED  BY <2>1
<1>2. ASSUME NEW t \in Declared
      PROVE  Descriptor(t) \in Components[installed] /\ Descriptor(t).table = t
  BY DEF Declared, Descriptor
<1>3. ASSUME NEW d \in Components[installed]
      PROVE  /\ d.table \in Declared /\ Descriptor(d.table) = d
             /\ Identity(d) \in Identities /\ Identity(d) # Absent
             /\ Identity(d).table = d.table /\ Identity(d).schema = d.schema
             /\ Identity(d).family = d.family
  <2>1. d.table \in Declared
    BY DEF Declared
  <2>2. Descriptor(d.table) = d
    BY <1>2, <2>1, ComponentAssumption
  <2>3. d \in Descriptors
    BY <1>1
  <2>4. Identity(d) \in Identities
    BY <2>3 DEF Identity, Identities, Descriptors
  <2>5. QED  BY <2>1, <2>2, <2>4, FamilyAssumption DEF Identity
<1>4. Declared \subseteq Tables
  BY <1>1 DEF Declared, Descriptors
<1>5. QED  BY <1>1, <1>2, <1>3, <1>4

(* What the types say of the variables, apart. *)
LEMMA TypedFields ==
  ASSUME TypeOK
  PROVE  /\ \A t \in Tables : /\ catalog[t] \in Identities \cup {Absent}
                              /\ memory[t] \in Identities \cup {Absent}
                              /\ identifiers[t] \in Nat
         /\ \A t \in Tables, k \in RecordKeys : rows[t][k] \in Records \cup {Absent}
         /\ checkpoint.rows \in SUBSET ViewRows /\ checkpoint.last \in Nat
         /\ checkpoint.digest \in Digests /\ checkpoint.families \in SUBSET Identities
         /\ checkpoint.counters \in [Tables -> Nat]
         /\ exported.checkpoint \in Checkpoints /\ exported.suffix \in Seq(Entries)
         /\ exported.checkpoint.rows \in SUBSET ViewRows
         /\ exported.checkpoint.last \in Nat
         /\ exported.checkpoint.digest \in Digests
         /\ exported.checkpoint.families \in SUBSET Identities
         /\ exported.checkpoint.counters \in [Tables -> Nat]
<1>1. /\ catalog \in Catalogs /\ memory \in Catalogs /\ identifiers \in [Tables -> Nat]
      /\ rows \in Rows /\ checkpoint \in Checkpoints
      /\ exported \in [checkpoint : Checkpoints, suffix : Seq(Entries)]
  BY DEF TypeOK
<1>2. \A t \in Tables : /\ catalog[t] \in Identities \cup {Absent}
                        /\ memory[t] \in Identities \cup {Absent}
                        /\ identifiers[t] \in Nat
  BY <1>1 DEF Catalogs
<1>3. \A t \in Tables, k \in RecordKeys : rows[t][k] \in Records \cup {Absent}
  BY <1>1 DEF Rows
<1>4. exported.checkpoint \in Checkpoints /\ exported.suffix \in Seq(Entries)
  BY <1>1
<1>5. \A cp \in Checkpoints :
        /\ cp.rows \in SUBSET ViewRows /\ cp.last \in Nat /\ cp.digest \in Digests
        /\ cp.families \in SUBSET Identities /\ cp.counters \in [Tables -> Nat]
  BY DEF Checkpoints
<1>6. QED  BY <1>1, <1>2, <1>3, <1>4, <1>5

LEMMA NothingTyped ==
  /\ NoCatalog \in Catalogs /\ EmptyRows \in Rows /\ NoCounters \in [Tables -> Nat]
  /\ NoDigest \in Digests /\ NoCheckpoint \in Checkpoints
  /\ NoExport \in [checkpoint : Checkpoints, suffix : Seq(Entries)]
<1>1. <<>> \in Seq(Bodies) /\ <<>> \in Seq(Entries)
  BY EmptySeq
<1>2. QED
  BY <1>1 DEF NoCatalog, Catalogs, EmptyRows, Rows, NoCounters, NoDigest, Digests,
              NoCheckpoint, Checkpoints, NoExport

LEMMA TypedInit == Init => Typed
<1> SUFFICES ASSUME Init
             PROVE  Typed
  OBVIOUS
<1>1. installed \in DOMAIN Components
  BY ComponentAssumption, EmptySeq, LenProperties DEF Init
<1>2. TypeOK
  <2>1. spent \in [commits : 0 .. MaxCommits, faults : 0 .. MaxFaults,
                   installs : 0 .. MaxInstalls, losses : 0 .. MaxLosses]
    BY LifetimeAssumption DEF Init
  <2>2. log \in Seq(Entries)
    BY EmptySeq DEF Init
  <2>3. QED  BY <1>1, <2>1, <2>2, NothingTyped DEF Init, TypeOK
<1>3. CarriedFinite
  <2>1. \A t \in Tables : Carried(t) = {}
    BY DEF Init, Carried, EmptyRows
  <2>2. checkpoint.rows = {} /\ exported.checkpoint.rows = {}
    BY DEF Init, NoCheckpoint, NoExport
  <2>3. QED  BY <2>1, <2>2, FS_EmptySet DEF CarriedFinite
<1>4. Process
  BY DEF Init, Process
<1>5. EntriesNamed
  BY DEF Init, EntriesNamed, NoExport
<1>6. QED  BY <1>2, <1>3, <1>4, <1>5 DEF Typed

(* The entry of a commit. *)
LEMMA MintType ==
  ASSUME TypeOK, NEW operations \in Seq(Operations), NEW families \in Catalogs
  PROVE  /\ Mint(operations, families) \in Entries
         /\ Mint(operations, families).body.operations = operations
         /\ Mint(operations, families).body.sequence = marker + 1
         /\ Mint(operations, families).previous = head
         /\ \A t \in Tables : families[t] # Absent =>
              Version(families[t]) \in Mint(operations, families).body.stamp
<1>1. Inventory(families) \subseteq Identities
  BY DEF Inventory, Catalogs
<1>2. StoreSchemaHash(Inventory(families)) \subseteq Families \X Schemas
  BY <1>1 DEF StoreSchemaHash, Version, Identities
<1>3. \A t \in Tables : families[t] # Absent =>
        Version(families[t]) \in StoreSchemaHash(Inventory(families))
  BY DEF StoreSchemaHash, Inventory
<1>4. marker + 1 \in Nat /\ head \in Digests
  BY DEF TypeOK
<1>5. QED  BY <1>2, <1>3, <1>4 DEF Mint, Entries, Bodies

LEMMA EntryDigestType ==
  ASSUME NEW entry \in Entries
  PROVE  EntryDigest(entry) \in Digests
<1>1. entry.previous \in Seq(Bodies) /\ entry.body \in Bodies
  BY DEF Entries, Digests
<1>2. QED  BY <1>1, AppendProperties DEF EntryDigest, Digests

(* What an evolution logs of the rows it carries. *)
LEMMA EvolutionOperationsType ==
  ASSUME NEW t \in Tables, rows \in Rows, IsFiniteSet(Carried(t)),
         NEW stored \in Identities, NEW evolved \in Identities
  PROVE  /\ EvolutionOperations(t, stored, evolved) \in Seq(Operations)
         /\ Len(EvolutionOperations(t, stored, evolved))
              = Cardinality(Carried(t)) + Cardinality(Carried(t))
         /\ \A i \in 1 .. Cardinality(Carried(t)) :
              /\ EvolutionOperations(t, stored, evolved)[i] =
                   [kind |-> "Retract", identity |-> stored,
                    key |-> InOrder(Carried(t))[i], payload |-> Absent]
              /\ EvolutionOperations(t, stored, evolved)[Cardinality(Carried(t)) + i] =
                   [kind |-> "Assert", identity |-> evolved,
                    key |-> InOrder(Carried(t))[i],
                    payload |-> Converted(t, evolved.schema)[InOrder(Carried(t))[i]]]
         /\ \A k \in Carried(t) :
              /\ k \in RecordKeys
              /\ Converted(t, evolved.schema)[k] =
                   [schema |-> evolved.schema, datum |-> rows[t][k].datum]
              /\ Converted(t, evolved.schema)[k] \in Records
<1> DEFINE N == Cardinality(Carried(t))
           keys == InOrder(Carried(t))
           retracts == [n \in DOMAIN keys |->
                          [kind |-> "Retract", identity |-> stored, key |-> keys[n],
                           payload |-> Absent]]
           asserts == [n \in DOMAIN keys |->
                         [kind |-> "Assert", identity |-> evolved, key |-> keys[n],
                          payload |-> Converted(t, evolved.schema)[keys[n]]]]
<1>1. N \in Nat /\ keys \in [1 .. N -> Carried(t)]
  BY InOrderType
<1>2. ASSUME NEW k \in Carried(t)
      PROVE  /\ k \in RecordKeys
             /\ Converted(t, evolved.schema)[k] =
                  [schema |-> evolved.schema, datum |-> rows[t][k].datum]
             /\ Converted(t, evolved.schema)[k] \in Records
  <2>1. k \in RecordKeys /\ rows[t][k] # Absent
    BY DEF Carried
  <2>2. rows[t][k] \in Records
    BY <2>1 DEF Rows
  <2>3. evolved.schema \in Schemas /\ rows[t][k].datum \in Data
    BY <2>2 DEF Identities, Records
  <2>4. QED  BY <2>1, <2>3 DEF Converted, Records
<1> HIDE DEF N, keys
<1>3. /\ \A n \in 1 .. N : keys[n] \in Carried(t)
      /\ DOMAIN keys = 1 .. N
  BY <1>1
<1>4. retracts \in [1 .. N -> Operations] /\ asserts \in [1 .. N -> Operations]
  BY <1>2, <1>3 DEF Operations
<1>5. /\ retracts \in Seq(Operations) /\ Len(retracts) = N
      /\ asserts \in Seq(Operations) /\ Len(asserts) = N
  <2> HIDE DEF retracts, asserts
  <2>1. retracts \in Seq(Operations) /\ asserts \in Seq(Operations)
    BY <1>1, <1>4
  <2>2. DOMAIN retracts = 1 .. N /\ DOMAIN asserts = 1 .. N
    BY <1>4
  <2>3. QED  BY <1>1, <2>1, <2>2, LenProperties
<1>6. EvolutionOperations(t, stored, evolved) = retracts \o asserts
  BY DEF EvolutionOperations, keys
<1>7. /\ retracts \o asserts \in Seq(Operations)
      /\ Len(retracts \o asserts) = N + N
      /\ \A i \in 1 .. N + N : (retracts \o asserts)[i] =
           IF i <= N THEN retracts[i] ELSE asserts[i - N]
  <2> HIDE DEF retracts, asserts
  <2>1. /\ retracts \o asserts \in Seq(Operations)
        /\ Len(retracts \o asserts) = Len(retracts) + Len(asserts)
        /\ \A i \in 1 .. Len(retracts) + Len(asserts) : (retracts \o asserts)[i] =
             IF i <= Len(retracts) THEN retracts[i] ELSE asserts[i - Len(retracts)]
    BY ONLY <1>5, ConcatProperties
  <2>2. QED  BY ONLY <1>5, <2>1
<1>8. ASSUME NEW i \in 1 .. N
      PROVE  /\ (retracts \o asserts)[i] = retracts[i]
             /\ (retracts \o asserts)[N + i] = asserts[i]
  <2> HIDE DEF retracts, asserts
  <2>1. /\ i \in 1 .. N + N /\ i <= N
        /\ N + i \in 1 .. N + N /\ ~(N + i <= N) /\ (N + i) - N = i
    BY <1>1
  <2>2. QED  BY <1>7, <2>1
<1>9. \A i \in 1 .. N :
        /\ retracts[i] = [kind |-> "Retract", identity |-> stored, key |-> keys[i],
                          payload |-> Absent]
        /\ asserts[i] = [kind |-> "Assert", identity |-> evolved, key |-> keys[i],
                         payload |-> Converted(t, evolved.schema)[keys[i]]]
  BY <1>3
<1> HIDE DEF retracts, asserts
<1>10. N = Cardinality(Carried(t)) /\ keys = InOrder(Carried(t))
  BY DEF N, keys
<1>11. /\ EvolutionOperations(t, stored, evolved) \in Seq(Operations)
       /\ Len(EvolutionOperations(t, stored, evolved)) = N + N
  BY <1>6, <1>7
<1>12. \A i \in 1 .. N :
         /\ EvolutionOperations(t, stored, evolved)[i] =
              [kind |-> "Retract", identity |-> stored, key |-> keys[i],
               payload |-> Absent]
         /\ EvolutionOperations(t, stored, evolved)[N + i] =
              [kind |-> "Assert", identity |-> evolved, key |-> keys[i],
               payload |-> Converted(t, evolved.schema)[keys[i]]]
  BY <1>6, <1>8, <1>9
<1>13. QED  BY <1>2, <1>10, <1>11, <1>12

(* So each of its operations is of one of the two kinds. *)
LEMMA EvolutionOperationsNamed ==
  ASSUME NEW t \in Tables, rows \in Rows, IsFiniteSet(Carried(t)),
         NEW stored \in Identities, NEW evolved \in Identities,
         NEW i \in DOMAIN EvolutionOperations(t, stored, evolved)
  PROVE  LET operation == EvolutionOperations(t, stored, evolved)[i]
         IN  /\ WellFormed(operation)
             /\ operation.key \in Carried(t)
             /\ operation.kind # "Retract" => operation.identity = evolved
             /\ operation.identity \in {stored, evolved}
<1> DEFINE N == Cardinality(Carried(t))
           keys == InOrder(Carried(t))
           operations == EvolutionOperations(t, stored, evolved)
<1>1. N \in Nat /\ keys \in [1 .. N -> Carried(t)]
  BY InOrderType
<1>2. i \in 1 .. N + N
  <2>1. DOMAIN operations = 1 .. Len(operations) /\ Len(operations) = N + N
    BY EvolutionOperationsType, LenProperties
  <2>2. QED  BY <2>1
<1>3. CASE i \in 1 .. N
  <2>1. operations[i] = [kind |-> "Retract", identity |-> stored, key |-> keys[i],
                         payload |-> Absent]
    BY <1>3, EvolutionOperationsType
  <2>2. keys[i] \in Carried(t)
    BY <1>1, <1>3
  <2> HIDE DEF operations, keys
  <2>3. QED  BY <2>1, <2>2 DEF WellFormed, operations
<1>4. CASE i \notin 1 .. N
  <2>1. PICK j \in 1 .. N : i = N + j
    <3>1. i - N \in 1 .. N /\ i = N + (i - N)
      BY <1>1, <1>2, <1>4
    <3>2. QED  BY <3>1
  <2>2. operations[i] = [kind |-> "Assert", identity |-> evolved, key |-> keys[j],
                         payload |-> Converted(t, evolved.schema)[keys[j]]]
    BY <2>1, EvolutionOperationsType
  <2>3. keys[j] \in Carried(t)
    BY <1>1
  <2>4. /\ Converted(t, evolved.schema)[keys[j]].schema = evolved.schema
        /\ Converted(t, evolved.schema)[keys[j]] # Absent
    <3> DEFINE converted == Converted(t, evolved.schema)[keys[j]]
    <3>1. /\ converted = [schema |-> evolved.schema, datum |-> rows[t][keys[j]].datum]
          /\ converted \in Records
      BY <2>3, EvolutionOperationsType
    <3> HIDE DEF converted, keys
    <3>2. converted.schema = evolved.schema /\ converted # Absent
      BY <3>1, FamilyAssumption
    <3>3. QED  BY <3>2 DEF converted
  <2> HIDE DEF operations, keys
  <2>5. QED  BY <2>2, <2>3, <2>4 DEF WellFormed, operations
<1>5. QED  BY <1>3, <1>4

-----------------------------------------------------------------------------
(* The steps keep the process typed: writes *)

\* What the calls that write one record have in common.
OneRecord(t, kind, k, payload) ==
  /\ Serving /\ Commit(kind, t, k, payload)
  /\ pc' \in {"idle", "maintain"}
  /\ kind = "Retract" <=> payload = Absent
  /\ payload # Absent => payload.schema = Descriptor(t).schema
  /\ kind # "Assert" => rows[t][k] # Absent
  /\ t \in IdentifiedTables => k \in Identifiers
  /\ \/ /\ t \in IdentifiedTables /\ kind = "Assert"
        /\ k = NextIdentifier(t)
        /\ identifiers' = [identifiers EXCEPT ![t] = k + 1]
     \/ /\ t \in IdentifiedTables => kind # "Assert"
        /\ kind = "Assert" => rows[t][k] = Absent
        /\ identifiers' = identifiers

LEMMA WriteIsOneRecord ==
  ASSUME TypeOK, Process, Write
  PROVE  \E t \in granted, kind \in {"Assert", "Mutate", "Retract"},
            k \in RecordKeys, payload \in Records \cup {Absent} :
           OneRecord(t, kind, k, payload)
<1>1. /\ granted \subseteq Tables /\ Keys \subseteq RecordKeys
      /\ Identifiers \subseteq RecordKeys
  BY DEF TypeOK, RecordKeys
<1>2. ASSUME NEW t \in granted, NEW datum \in Data
      PROVE  /\ RecordOf(t, datum) \in Records /\ RecordOf(t, datum) # Absent
             /\ RecordOf(t, datum).schema = Descriptor(t).schema
  <2>1. t \in Declared /\ installed \in DOMAIN Components
    BY DEF Process, Bound, TypeOK
  <2>2. Descriptor(t).schema \in Schemas
    BY <2>1, DescriptorFields DEF Descriptors
  <2>3. QED  BY <2>2, FamilyAssumption DEF RecordOf, Records
<1>3. ASSUME NEW t \in Tables, NEW k \in Keys, NEW datum \in Data, AssertKeyed(t, k, datum)
      PROVE  t \in granted /\ OneRecord(t, "Assert", k, RecordOf(t, datum))
  BY <1>2, <1>3 DEF AssertKeyed, OneRecord
<1>4. ASSUME NEW t \in Tables, NEW k \in Keys, NEW datum \in Data, MutateKeyed(t, k, datum)
      PROVE  t \in granted /\ OneRecord(t, "Mutate", k, RecordOf(t, datum))
  BY <1>2, <1>4 DEF MutateKeyed, OneRecord
<1>5. ASSUME NEW t \in Tables, NEW k \in Keys, Retract(t, k)
      PROVE  t \in granted /\ OneRecord(t, "Retract", k, Absent)
  BY <1>5 DEF Retract, OneRecord
<1>6. ASSUME NEW t \in Tables, NEW datum \in Data, AssertIdentified(t, datum)
      PROVE  /\ t \in granted /\ NextIdentifier(t) \in Identifiers
             /\ OneRecord(t, "Assert", NextIdentifier(t), RecordOf(t, datum))
  <2>1. identifiers[t] \in Nat
    BY TypedFields
  <2>2. NextIdentifier(t) \in Nat /\ NextIdentifier(t) >= 1
    BY <2>1 DEF NextIdentifier
  <2>3. NextIdentifier(t) \in Identifiers
    BY <1>6, <2>2, FamilyAssumption DEF AssertIdentified, Identifiers
  <2>4. t \in granted /\ pc' = "idle"
    BY <1>6 DEF AssertIdentified, Serving
  <2>5. QED  BY <1>2, <1>6, <2>3, <2>4 DEF AssertIdentified, OneRecord
<1>7. ASSUME NEW t \in Tables, NEW k \in Identifiers, NEW datum \in Data,
             MutateIdentified(t, k, datum)
      PROVE  t \in granted /\ OneRecord(t, "Mutate", k, RecordOf(t, datum))
  <2>1. t \in granted /\ pc' = "idle"
    BY <1>7 DEF MutateIdentified, Serving
  <2>2. QED  BY <1>2, <1>7, <2>1 DEF MutateIdentified, OneRecord
<1>8. ASSUME NEW t \in Tables, NEW k \in Identifiers, RetractIdentified(t, k)
      PROVE  t \in granted /\ OneRecord(t, "Retract", k, Absent)
  <2>1. t \in granted /\ pc' = "idle"
    BY <1>8 DEF RetractIdentified, Serving
  <2>2. QED  BY <1>8, <2>1 DEF RetractIdentified, OneRecord
<1> HIDE DEF Process
<1>9. QED
  BY <1>1, <1>2, <1>3, <1>4, <1>5, <1>6, <1>7, <1>8 DEF Write

(* A new entry is as well named as the ones before it. *)
LEMMA AppendTyped ==
  ASSUME TypeOK, EntriesNamed, NEW operations \in Seq(Operations), NEW families \in Catalogs,
         AppendEntry(Mint(operations, families)), exported' = exported,
         Named(Mint(operations, families).body)
  PROVE  /\ log' \in Seq(Entries) /\ head' \in Digests /\ marker' \in Nat
         /\ EntriesNamed'
<1> DEFINE entry == Mint(operations, families)
<1>1. entry \in Entries /\ entry.body.sequence = marker + 1
  BY MintType
<1>2. /\ log' = Append(log, entry) /\ head' = EntryDigest(entry)
      /\ marker' = entry.body.sequence
  BY DEF AppendEntry
<1> HIDE DEF entry
<1>3. log \in Seq(Entries) /\ marker \in Nat
  BY DEF TypeOK
<1>4. /\ log' \in Seq(Entries) /\ Len(log') = Len(log) + 1 /\ Len(log) \in Nat
      /\ DOMAIN log = 1 .. Len(log) /\ DOMAIN log' = 1 .. Len(log) + 1
      /\ \A n \in 1 .. Len(log) : log'[n] = log[n]
      /\ log'[Len(log) + 1] = entry
  BY <1>1, <1>2, <1>3, AppendProperties, LenProperties
<1>5. \A n \in DOMAIN log' : Named(log'[n].body)
  <2>1. ASSUME NEW n \in DOMAIN log'
        PROVE  Named(log'[n].body)
    <3>1. n \in DOMAIN log \/ n = Len(log) + 1
      BY <1>4
    <3>2. QED  BY <1>4, <3>1 DEF EntriesNamed, entry
  <2>2. QED  BY <2>1
<1>6. EntriesNamed'
  BY <1>5 DEF EntriesNamed
<1>7. QED  BY <1>1, <1>2, <1>3, <1>4, <1>6, EntryDigestType

\* How much of the bounds may be used.
Spendings == [commits : 0 .. MaxCommits, faults : 0 .. MaxFaults,
              installs : 0 .. MaxInstalls, losses : 0 .. MaxLosses]

LEMMA SpendOne ==
  ASSUME spent \in Spendings
  PROVE  /\ spent.commits < MaxCommits => [spent EXCEPT !.commits = @ + 1] \in Spendings
         /\ spent.faults < MaxFaults => [spent EXCEPT !.faults = @ + 1] \in Spendings
         /\ spent.installs < MaxInstalls => [spent EXCEPT !.installs = @ + 1] \in Spendings
         /\ spent.losses < MaxLosses => [spent EXCEPT !.losses = @ + 1] \in Spendings
<1>1. MaxCommits \in Nat /\ MaxFaults \in Nat /\ MaxInstalls \in Nat /\ MaxLosses \in Nat
  BY LifetimeAssumption
<1>2. \A m \in Nat : \A n \in 0 .. m : n < m => n + 1 \in 0 .. m
  OBVIOUS
<1>3. /\ spent.commits \in 0 .. MaxCommits /\ spent.faults \in 0 .. MaxFaults
      /\ spent.installs \in 0 .. MaxInstalls /\ spent.losses \in 0 .. MaxLosses
  BY DEF Spendings
<1>4. /\ spent.commits < MaxCommits => spent.commits + 1 \in 0 .. MaxCommits
      /\ spent.faults < MaxFaults => spent.faults + 1 \in 0 .. MaxFaults
      /\ spent.installs < MaxInstalls => spent.installs + 1 \in 0 .. MaxInstalls
      /\ spent.losses < MaxLosses => spent.losses + 1 \in 0 .. MaxLosses
  BY <1>1, <1>2, <1>3
<1>5. QED  BY <1>4 DEF Spendings

(* A process whose catalogs and references stay, stays as it was. *)
LEMMA ProcessKept ==
  ASSUME Process, UNCHANGED <<catalog, memory, granted, pending, installed>>,
         pc # "closed", pc' # "closed",
         pending # NoPending => pc' \in {"maintain", "compact"},
         pc' \in {"maintain", "compact"} /\ pending = NoPending => granted = Declared
  PROVE  Process'
<1>1. Declared' = Declared /\ \A t : Descriptor(t)' = Descriptor(t)
  BY DEF Declared, Descriptor
<1>2. \A t : /\ Bound(t)' <=> Bound(t)
             /\ Superseded(t)' <=> Superseded(t)
  BY <1>1 DEF Bound, Superseded
<1> HIDE DEF Bound, Superseded
<1>3. QED  BY <1>1, <1>2 DEF Process

LEMMA WriteTyped ==
  ASSUME Typed, Write
  PROVE  Typed'
<1>1. PICK t \in granted, kind \in {"Assert", "Mutate", "Retract"},
           k \in RecordKeys, payload \in Records \cup {Absent} :
        OneRecord(t, kind, k, payload)
  BY WriteIsOneRecord DEF Typed
<1>2. /\ t \in Tables /\ Bound(t) /\ pending = NoPending /\ granted = Declared
      /\ pc = "idle"
  BY <1>1 DEF Typed, TypeOK, Process, OneRecord, Serving
<1>3. installed \in DOMAIN Components /\ memory \in Catalogs
  BY DEF Typed, TypeOK
<1>4. memory[t] \in Identities /\ memory[t] # Absent /\ memory[t].schema = Descriptor(t).schema
  BY <1>2, <1>3, DescriptorFields DEF Bound
<1> DEFINE operations == <<Operation(kind, t, k, payload)>>
<1>5. /\ operations \in Seq(Operations)
      /\ DOMAIN operations = {1} /\ operations[1] = Operation(kind, t, k, payload)
  <2>1. Operation(kind, t, k, payload) \in Operations
    BY <1>4 DEF Operation, Operations
  <2>2. QED  BY <2>1
<1>6. /\ AppendEntry(Mint(operations, memory))
      /\ rows' = [rows EXCEPT ![t][k] = payload]
      /\ UNCHANGED <<catalog, checkpoint, memory, granted, pending, installed, exported>>
      /\ spent' = [spent EXCEPT !.commits = @ + 1] /\ spent.commits < MaxCommits
  BY <1>1 DEF OneRecord, Commit
<1>7. Named(Mint(operations, memory).body)
  <2>1. WellFormed(Operation(kind, t, k, payload))
    BY <1>1, <1>4 DEF WellFormed, Operation, OneRecord
  <2>2. Version(memory[t]) \in Mint(operations, memory).body.stamp
    BY <1>2, <1>3, <1>4, <1>5, MintType DEF Typed
  <2>3. Mint(operations, memory).body.operations = operations
    BY <1>3, <1>5, MintType DEF Typed
  <2> HIDE DEF operations
  <2>4. QED  BY <1>5, <2>1, <2>2, <2>3 DEF Named, Operation
<1> HIDE DEF operations
<1>8. log' \in Seq(Entries) /\ head' \in Digests /\ marker' \in Nat /\ EntriesNamed'
  BY <1>3, <1>5, <1>6, <1>7, AppendTyped DEF Typed
<1>9. rows' \in Rows
  BY <1>2, <1>6 DEF Typed, TypeOK, Rows
<1>10. identifiers' \in [Tables -> Nat]
  <2>1. identifiers \in [Tables -> Nat]
    BY DEF Typed, TypeOK
  <2>2. NextIdentifier(t) \in Nat
    BY <1>2, <2>1 DEF NextIdentifier
  <2>3. QED  BY <1>1, <2>1, <2>2 DEF OneRecord
<1>11. spent' \in Spendings
  BY <1>6, SpendOne DEF Typed, TypeOK, Spendings
<1>12. pc' \in {"idle", "maintain"}
  BY <1>1 DEF OneRecord
<1>13. TypeOK'
  BY <1>6, <1>8, <1>9, <1>10, <1>11, <1>12 DEF Typed, TypeOK, Spendings
<1>14. CarriedFinite'
  <2>1. \A u \in Tables, l \in RecordKeys : rows'[u][l] = IF u = t /\ l = k THEN payload ELSE rows[u][l]
    BY <1>2, <1>6 DEF Typed, TypeOK, Rows
  <2>2. ASSUME NEW u \in Tables
        PROVE  IsFiniteSet(Carried(u)')
    <3>1. Carried(u)' \subseteq Carried(u) \cup {k}
      BY <2>1 DEF Carried
    <3>2. IsFiniteSet(Carried(u) \cup {k})
      BY FS_AddElement DEF Typed, CarriedFinite
    <3>3. QED  BY <3>1, <3>2, FS_Subset
  <2>3. QED  BY <1>6, <2>2 DEF Typed, CarriedFinite
<1>15. Process'
  BY <1>2, <1>6, <1>12, ProcessKept DEF Typed
<1>16. QED  BY <1>8, <1>13, <1>14, <1>15 DEF Typed

-----------------------------------------------------------------------------
(* The steps keep the process typed: processes and registration *)

LEMMA DiskKept ==
  ASSUME CarriedFinite, EntriesNamed, UNCHANGED <<diskVars, exported>>
  PROVE  CarriedFinite' /\ EntriesNamed'
<1>1. \A t : Carried(t)' = Carried(t)
  BY DEF Carried, diskVars
<1>2. QED  BY <1>1 DEF CarriedFinite, EntriesNamed, diskVars

LEMMA FaultTyped ==
  ASSUME TypeOK, Fault
  PROVE  spent' \in Spendings /\ UNCHANGED <<installed, exported>>
  BY SpendOne DEF TypeOK, Fault, Spendings

LEMMA ProcessStepsTyped ==
  ASSUME Typed, (\E n \in DOMAIN Components : Install(n)) \/ Open \/ Exit \/ Retry \/ Crash
  PROVE  Typed'
<1>1. UNCHANGED <<diskVars, exported>>
  BY DEF Install, Open, Exit, Retry, Crash, Gone, Fault, outerVars
<1>2. CarriedFinite' /\ EntriesNamed'
  BY <1>1, DiskKept DEF Typed
<1>3. CASE \E n \in DOMAIN Components : Install(n)
  <2>1. PICK n \in DOMAIN Components : Install(n)
    BY <1>3
  <2>2. spent' \in Spendings
    BY <2>1, SpendOne DEF Install, Typed, TypeOK, Spendings
  <2>3. TypeOK'
    BY <2>1, <2>2 DEF Install, Typed, TypeOK, Spendings, diskVars, processVars
  <2>4. Process'
    BY <2>1 DEF Install, Typed, Process, processVars
  <2>5. QED  BY <1>2, <2>3, <2>4 DEF Typed
<1>4. CASE Open
  <2>1. TypeOK'
    BY <1>4 DEF Open, Typed, TypeOK, diskVars, outerVars
  <2>2. Process'
    BY <1>4 DEF Open, Typed, Process, diskVars
  <2>3. QED  BY <1>2, <2>1, <2>2 DEF Typed
<1>5. CASE Exit \/ Crash
  <2>1. Gone /\ UNCHANGED <<installed, exported>> /\ spent' \in Spendings
    BY <1>5, FaultTyped DEF Exit, Crash, Typed, TypeOK, outerVars, Spendings
  <2>2. TypeOK'
    BY <2>1, NothingTyped DEF Gone, Typed, TypeOK, diskVars, Spendings
  <2>3. Process'
    BY <2>1 DEF Gone, Process
  <2>4. QED  BY <1>2, <2>2, <2>3 DEF Typed
<1>6. CASE Retry
  <2>1. TypeOK'
    BY <1>6 DEF Retry, Typed, TypeOK, diskVars, outerVars
  <2>2. Process'
    BY <1>6, ProcessKept DEF Retry, Typed, Process, diskVars, outerVars
  <2>3. QED  BY <1>2, <2>1, <2>2 DEF Typed
<1>7. QED  BY <1>3, <1>4, <1>5, <1>6

(* Where memory and disk get the component's own descriptor, the table is    *)
(* granted, or on its way to be.                                            *)
LEMMA ProcessBinds ==
  ASSUME TypeOK, Process, NEW d \in Components[installed], d.table \notin granted,
         pc = "idle",
         memory' = [memory EXCEPT ![d.table] = Identity(d)],
         catalog' = [catalog EXCEPT ![d.table] = Identity(d)], installed' = installed,
         \/ granted' = granted \cup {d.table} /\ pc' = pc /\ pending' = pending
         \/ /\ granted' = granted /\ pc' = "maintain"
            /\ pending' = [table |-> d.table, previous |-> memory[d.table]]
  PROVE  Process'
<1> DEFINE t == d.table
<1>1. installed \in DOMAIN Components /\ catalog \in Catalogs /\ memory \in Catalogs
  BY DEF TypeOK
<1>2. t \in Tables /\ t \in Declared /\ Descriptor(t) = d /\ t # Absent
  BY <1>1, DescriptorFields, FamilyAssumption
<1>3. Declared' = Declared /\ \A u : Descriptor(u)' = Descriptor(u)
  BY DEF Declared, Descriptor
<1>4. /\ catalog'[t] = Identity(d) /\ memory'[t] = Identity(d)
      /\ \A u \in Tables : u # t => catalog'[u] = catalog[u] /\ memory'[u] = memory[u]
  BY <1>1, <1>2 DEF Catalogs
<1> HIDE DEF t
<1>5. \A u \in Tables : Bound(u) => Bound(u)'
  BY <1>2, <1>3, <1>4 DEF Bound
<1>6. t \in Declared' /\ memory'[t] = Identity(Descriptor(t)') /\ catalog'[t] = memory'[t]
  BY <1>2, <1>3, <1>4
<1>7. granted \subseteq Tables /\ \A u \in granted : Bound(u) /\ Bound(u)'
  BY <1>5 DEF Process, TypeOK
<1>8. \A u \in granted \cup {t} : Bound(u)'
  <2>1. Bound(t)'
    BY <1>6 DEF Bound
  <2>2. QED  BY <1>7, <2>1
<1>9. pc' # "closed" => \A u \in Tables : memory'[u] = catalog'[u] \/ Superseded(u)'
  <2>1. ASSUME NEW u \in Tables, u # t
        PROVE  memory'[u] = catalog'[u] \/ Superseded(u)'
    <3>1. memory[u] = catalog[u] \/ Superseded(u)
      BY DEF Process
    <3>2. u \notin granted => u \notin granted'
      BY <2>1 DEF t
    <3>3. QED  BY <1>3, <1>4, <2>1, <3>1, <3>2 DEF Superseded
  <2>2. QED  BY <1>4, <2>1
<1>10. pending # NoPending => pc \in {"maintain", "compact"}
  BY DEF Process
<1>11. CASE granted' = granted \cup {d.table} /\ pc' = pc /\ pending' = pending
  BY <1>8, <1>9, <1>10, <1>11 DEF Process, t
<1>12. CASE /\ granted' = granted /\ pc' = "maintain"
            /\ pending' = [table |-> d.table, previous |-> memory[d.table]]
  <2>1. pending'.table = t /\ pending' # NoPending /\ t \notin granted
    BY <1>2, <1>12 DEF t, NoPending
  <2>2. QED  BY <1>7, <1>8, <1>9, <1>12, <2>1 DEF Process
<1>13. QED  BY <1>11, <1>12

\* The four ways in which a registration changes the store.
CatalogAlone(d) ==
  /\ catalog' = [catalog EXCEPT ![d.table] = Identity(d)]
  /\ memory' = [memory EXCEPT ![d.table] = Identity(d)]
  /\ granted' = granted \cup {d.table}
  /\ UNCHANGED <<pc, pending, rows, log, head, marker, checkpoint, outerVars>>

LEMMA RegisterSplits ==
  ASSUME TypeOK, Process, NEW d \in Components[installed], Register(d)
  PROVE  /\ pc = "idle" /\ d.table \notin granted
         /\ \/ /\ RegisterExisting(d)
               /\ memory' = [memory EXCEPT ![d.table] = Identity(d)]
               /\ catalog' = [catalog EXCEPT ![d.table] = Identity(d)]
            \/ /\ pc' = "failed" /\ UNCHANGED <<diskVars, memory, granted, pending>>
               /\ UNCHANGED outerVars \/ Fault
            \/ /\ CatalogAlone(d)
               /\ \/ /\ memory[d.table] = Absent
                     /\ ~\E bound \in Inventory(memory) : SharesFamily(bound, Identity(d))
                     /\ identifiers' = IF d.table \in IdentifiedTables
                                         THEN [identifiers EXCEPT ![d.table] = 1]
                                         ELSE identifiers
                  \/ /\ Mismatched(d) /\ Carried(d.table) = {}
                     /\ identifiers' = identifiers
            \/ EvolveRows(d)
<1>1. pc = "idle" /\ d.table \notin granted
  BY DEF Register
<1>2. CASE RegisterExisting(d)
  <2>1. d.table \in Tables /\ Descriptor(d.table) = d
    BY DescriptorFields DEF TypeOK
  <2>2. catalog[d.table] = Identity(d) /\ memory[d.table] = Identity(d)
    BY <1>1, <1>2, <2>1 DEF RegisterExisting, Process, Superseded
  <2>3. /\ memory = [memory EXCEPT ![d.table] = Identity(d)]
        /\ catalog = [catalog EXCEPT ![d.table] = Identity(d)]
    BY <2>1, <2>2 DEF TypeOK, Catalogs
  <2>4. memory' = memory /\ catalog' = catalog
    BY <1>2 DEF RegisterExisting, diskVars
  <2>5. QED  BY <1>1, <1>2, <2>3, <2>4
<1>3. CASE RegisterRefused(d) \/ EvolveUndecodable(d) \/ EvolveFails(d)
  BY <1>1, <1>3 DEF RegisterRefused, EvolveUndecodable, EvolveFails, Refuse
<1>4. CASE RegisterNew(d)
  BY <1>1, <1>4 DEF RegisterNew, CatalogAlone, Grant, Refuse
<1>5. CASE EvolveEmpty(d)
  BY <1>1, <1>5 DEF EvolveEmpty, CatalogAlone, Grant
<1>6. CASE EvolveRows(d)
  BY <1>1, <1>6
<1>7. QED  BY <1>2, <1>3, <1>4, <1>5, <1>6 DEF Register

LEMMA EvolveRowsTyped ==
  ASSUME Typed, NEW d \in Components[installed], Register(d), EvolveRows(d)
  PROVE  Typed'
<1> DEFINE t == d.table
           evolved == [memory EXCEPT ![t] = Identity(d)]
           operations == EvolutionOperations(t, memory[t], Identity(d))
<1>1. /\ TypeOK /\ Process /\ installed \in DOMAIN Components
      /\ memory \in Catalogs /\ catalog \in Catalogs /\ rows \in Rows
  BY DEF Typed, TypeOK
<1>2. /\ t \in Tables /\ Identity(d) \in Identities /\ Identity(d) # Absent
      /\ Identity(d).schema = d.schema
  BY <1>1, DescriptorFields
<1>3. /\ AppendEntry(Mint(operations, evolved))
      /\ rows' = [rows EXCEPT ![t] = Converted(t, d.schema)]
      /\ catalog' = [catalog EXCEPT ![t] = Identity(d)]
      /\ memory' = evolved /\ pc' = "maintain" /\ granted' = granted
      /\ pending' = [table |-> t, previous |-> memory[t]]
      /\ UNCHANGED <<identifiers, checkpoint, installed, exported, spent>>
      /\ Mismatched(d)
  BY DEF EvolveRows, outerVars
<1>4. memory[t] \in Identities
  BY <1>1, <1>2, <1>3 DEF Mismatched, Catalogs
<1>5. IsFiniteSet(Carried(t))
  BY <1>2 DEF Typed, CarriedFinite
<1>6. operations \in Seq(Operations)
  BY <1>1, <1>2, <1>4, <1>5, EvolutionOperationsType
<1>7. evolved \in Catalogs /\ evolved[t] = Identity(d)
  BY <1>1, <1>2 DEF Catalogs
<1>8. Named(Mint(operations, evolved).body)
  <2>1. /\ Mint(operations, evolved).body.operations = operations
        /\ Version(Identity(d)) \in Mint(operations, evolved).body.stamp
    BY <1>1, <1>2, <1>6, <1>7, MintType
  <2>2. ASSUME NEW i \in DOMAIN operations
        PROVE  /\ WellFormed(operations[i])
               /\ operations[i].kind # "Retract" => operations[i].identity = Identity(d)
    BY <1>1, <1>2, <1>4, <1>5, EvolutionOperationsNamed
  <2> HIDE DEF operations, evolved
  <2>3. QED  BY <2>1, <2>2 DEF Named
<1> HIDE DEF operations, evolved
<1>9. log' \in Seq(Entries) /\ head' \in Digests /\ marker' \in Nat /\ EntriesNamed'
  BY <1>1, <1>3, <1>6, <1>7, <1>8, AppendTyped DEF Typed
<1>10. Converted(t, d.schema) \in [RecordKeys -> Records \cup {Absent}]
  <2>1. d.schema \in Schemas
    BY <1>2 DEF Identities
  <2>2. ASSUME NEW k \in RecordKeys, rows[t][k] # Absent
        PROVE  [schema |-> d.schema, datum |-> rows[t][k].datum] \in Records
    <3>1. rows[t][k] \in Records
      BY <1>1, <1>2, <2>2 DEF Rows
    <3>2. QED  BY <2>1, <3>1 DEF Records
  <2>3. QED  BY <2>2 DEF Converted
<1>11. rows' \in Rows
  BY <1>1, <1>3, <1>10 DEF Rows
<1>12. pending' \in [table : Tables, previous : Identities]
  BY <1>2, <1>3, <1>4
<1>13. catalog' \in Catalogs
  BY <1>1, <1>2, <1>3 DEF Catalogs
<1>14. TypeOK'
  BY <1>1, <1>3, <1>7, <1>9, <1>11, <1>12, <1>13 DEF TypeOK
<1>15. CarriedFinite'
  <2>1. ASSUME NEW u \in Tables
        PROVE  IsFiniteSet(Carried(u)')
    <3>1. Carried(u)' \subseteq Carried(u)
      <4>1. CASE u = t
        <5>1. rows'[u] = Converted(t, d.schema)
          BY <1>1, <1>2, <1>3, <4>1 DEF Rows
        <5>2. QED  BY <4>1, <5>1 DEF Carried, Converted
      <4>2. CASE u # t
        BY <1>1, <1>3, <4>2 DEF Carried, Rows
      <4>3. QED  BY <4>1, <4>2
    <3>2. QED  BY <3>1, FS_Subset DEF Typed, CarriedFinite
  <2>2. QED  BY <1>3, <2>1 DEF Typed, CarriedFinite
<1>16. Process'
  <2>1. pc = "idle" /\ d.table \notin granted
    BY DEF Register
  <2>2. QED  BY <1>1, <1>3, <2>1, ProcessBinds DEF evolved
<1>17. QED  BY <1>9, <1>14, <1>15, <1>16 DEF Typed

LEMMA RegisterTyped ==
  ASSUME Typed, NEW d \in Components[installed], Register(d)
  PROVE  Typed'
<1>1. /\ TypeOK /\ Process /\ CarriedFinite /\ EntriesNamed
      /\ installed \in DOMAIN Components
      /\ memory \in Catalogs /\ catalog \in Catalogs
  BY DEF Typed, TypeOK
<1>2. pc = "idle" /\ d.table \notin granted /\ pending = NoPending
  BY <1>1, RegisterSplits DEF Process
<1>3. d.table \in Tables /\ Identity(d) \in Identities
  BY <1>1, DescriptorFields
<1>4. CASE EvolveRows(d)
  BY <1>4, EvolveRowsTyped
<1>5. CASE /\ pc' = "failed" /\ UNCHANGED <<diskVars, memory, granted, pending>>
           /\ UNCHANGED outerVars \/ Fault
  <2>1. UNCHANGED <<installed, exported>> /\ spent' \in Spendings
    BY <1>1, <1>5, FaultTyped DEF outerVars, TypeOK, Spendings
  <2>2. TypeOK'
    BY <1>1, <1>5, <2>1 DEF TypeOK, diskVars, Spendings
  <2>3. Process'
    BY <1>1, <1>2, <1>5, <2>1, ProcessKept DEF diskVars
  <2>4. QED  BY <1>1, <1>5, <2>1, <2>2, <2>3, DiskKept DEF Typed
<1>6. CASE /\ RegisterExisting(d)
           /\ memory' = [memory EXCEPT ![d.table] = Identity(d)]
           /\ catalog' = [catalog EXCEPT ![d.table] = Identity(d)]
  <2>1. /\ granted' = granted \cup {d.table}
        /\ UNCHANGED <<diskVars, memory, pc, pending, outerVars>>
    BY <1>6 DEF RegisterExisting, Grant
  <2>2. TypeOK'
    BY <1>1, <1>3, <2>1 DEF TypeOK, diskVars, outerVars
  <2>3. Process'
    BY <1>1, <1>2, <1>6, <2>1, ProcessBinds DEF outerVars
  <2>4. QED  BY <1>1, <2>1, <2>2, <2>3, DiskKept DEF Typed, outerVars
<1>7. CASE /\ CatalogAlone(d)
           /\ \/ identifiers' = identifiers
              \/ identifiers' = IF d.table \in IdentifiedTables
                                  THEN [identifiers EXCEPT ![d.table] = 1]
                                  ELSE identifiers
  <2>1. catalog' \in Catalogs /\ memory' \in Catalogs
    BY <1>1, <1>3, <1>7 DEF CatalogAlone, Catalogs
  <2>2. identifiers' \in [Tables -> Nat]
    <3>1. identifiers \in [Tables -> Nat]
      BY <1>1 DEF TypeOK
    <3>2. QED  BY ONLY <1>7, <3>1
  <2>3. TypeOK'
    <3>1. /\ granted' \in SUBSET Tables
          /\ UNCHANGED <<pc, pending, rows, log, head, marker, checkpoint, installed,
                         exported, spent>>
      BY <1>1, <1>3, <1>7 DEF TypeOK, CatalogAlone, outerVars
    <3>2. QED  BY <1>1, <2>1, <2>2, <3>1 DEF TypeOK
  <2>4. Process'
    BY <1>1, <1>2, <1>7, ProcessBinds DEF CatalogAlone, outerVars
  <2>5. CarriedFinite' /\ EntriesNamed'
    <3>1. \A u : Carried(u)' = Carried(u)
      BY <1>7 DEF CatalogAlone, Carried
    <3>2. QED
      BY <1>1, <1>7, <3>1 DEF CatalogAlone, outerVars, CarriedFinite, EntriesNamed
  <2>6. QED  BY <2>3, <2>4, <2>5 DEF Typed
<1>8. QED  BY <1>1, <1>4, <1>5, <1>6, <1>7, RegisterSplits

-----------------------------------------------------------------------------
(* The steps keep the process typed: maintenance, rebuild and restore *)

LEMMA UncoveredType ==
  ASSUME TypeOK
  PROVE  /\ Uncovered \in Seq(Entries)
         /\ Uncovered # <<>> => Uncovered[Len(Uncovered)] \in Entries
         /\ \A n \in DOMAIN Uncovered : \E m \in DOMAIN log : Uncovered[n] = log[m]
<1>1. log \in Seq(Entries) /\ checkpoint.last \in Nat
  BY TypedFields DEF TypeOK
<1>2. Uncovered \in Seq(Entries)
  BY <1>1, SuffixType DEF Uncovered
<1>3. \A n \in DOMAIN Uncovered : \E m \in DOMAIN log : Uncovered[n] = log[m]
  BY <1>1, SuffixType DEF Uncovered
<1>4. ASSUME Uncovered # <<>>
      PROVE  Uncovered[Len(Uncovered)] \in Entries
  <2>1. Len(Uncovered) \in 1 .. Len(Uncovered)
    BY <1>2, <1>4, EmptySeq
  <2>2. QED  BY <1>2, <2>1, ElementOfSeq
<1>5. QED  BY <1>2, <1>3, <1>4

LEMMA TakeCheckpointTyped ==
  ASSUME TypeOK, CarriedFinite, TakeCheckpoint
  PROVE  /\ checkpoint' \in Checkpoints /\ IsFiniteSet(checkpoint'.rows)
         /\ UNCHANGED <<catalog, rows, identifiers, log, head, marker>>
<1> DEFINE last == Uncovered[Len(Uncovered)]
<1>1. /\ checkpoint' = [last |-> last.body.sequence, digest |-> EntryDigest(last),
                        families |-> Inventory(memory), counters |-> identifiers,
                        rows |-> RowsOf(CanonicalView)]
      /\ Uncovered # <<>>
      /\ UNCHANGED <<catalog, rows, identifiers, log, head, marker>>
  BY DEF TakeCheckpoint
<1>2. last \in Entries
  BY <1>1, UncoveredType
<1> HIDE DEF last
<1>3. last.body.sequence \in Nat /\ EntryDigest(last) \in Digests
  BY <1>2, EntryDigestType DEF Entries, Bodies
<1>4. Inventory(memory) \in SUBSET Identities /\ identifiers \in [Tables -> Nat]
  BY DEF TypeOK, Catalogs, Inventory
<1>5. CanonicalView \in Views
  BY UncoveredType, TypedFields, FoldType DEF CanonicalView, CarriedFinite
<1>6. RowsOf(CanonicalView) \in SUBSET ViewRows /\ IsFiniteSet(RowsOf(CanonicalView))
  BY <1>5, RowsOfType
<1>7. QED  BY <1>1, <1>3, <1>4, <1>6 DEF Checkpoints

LEMMA FinishTyped ==
  ASSUME TypeOK, Process, NEW ok \in BOOLEAN, Finish(ok), pc \in {"maintain", "compact"},
         UNCHANGED <<catalog, installed>>
  PROVE  /\ Process' /\ memory' \in Catalogs /\ granted' \in SUBSET Tables
         /\ pc' \in {"idle", "failed"} /\ pending' = NoPending
         /\ pending = NoPending => pc' = "idle"
<1>1. Declared' = Declared /\ \A t : Descriptor(t)' = Descriptor(t)
  BY DEF Declared, Descriptor
<1>2. /\ memory \in Catalogs /\ granted \in SUBSET Tables
      /\ pending # NoPending => pending.table \in Tables /\ pending.previous \in Identities
  BY DEF TypeOK
<1>3. pc' \in {"idle", "failed"} /\ pending' = NoPending
  BY DEF Finish
<1>4. CASE pending = NoPending \/ ok
  <2>1. memory' = memory /\ \A t \in granted' : t \in granted \/ Bound(t)
    BY <1>4 DEF Finish, Process
  <2>2. granted' \in SUBSET Tables
    BY <1>2, <1>4 DEF Finish
  <2>3. \A t : Bound(t) => Bound(t)'
    BY <1>1, <2>1 DEF Bound
  <2>4. \A t \in granted' : Bound(t)'
    BY <2>1, <2>3 DEF Process
  <2>5. \A t \in Tables : memory'[t] = catalog'[t] \/ Superseded(t)'
    <3>1. ASSUME NEW t \in Tables
          PROVE  memory'[t] = catalog'[t] \/ Superseded(t)'
      <4>1. CASE t \in granted'
        BY <2>4, <4>1 DEF Bound
      <4>2. CASE t \notin granted'
        BY <1>1, <2>1, <4>2 DEF Process, Superseded
      <4>3. QED  BY <4>1, <4>2
    <3>2. QED  BY <3>1
  <2>6. pending = NoPending => pc' = "idle"
    BY DEF Finish
  <2>7. QED  BY <1>2, <1>3, <2>1, <2>2, <2>4, <2>5, <2>6 DEF Process
<1>5. CASE pending # NoPending /\ ~ok
  <2>1. PICK p : p = pending.table
    OBVIOUS
  <2>2. /\ memory' = [memory EXCEPT ![p] = pending.previous]
        /\ granted' = granted /\ p \notin granted /\ Bound(p) /\ p \in Tables
    BY <1>2, <1>5, <2>1 DEF Finish, Process
  <2>3. memory' \in Catalogs
    BY <1>2, <1>5, <2>2 DEF Catalogs
  <2>4. \A t \in Tables : t # p => memory'[t] = memory[t]
    BY <1>2, <2>2 DEF Catalogs
  <2>5. Superseded(p)'
    BY <1>1, <2>2 DEF Bound, Superseded
  <2>6. \A t \in granted' : Bound(t)'
    BY <1>1, <1>2, <2>2, <2>4 DEF Process, Bound
  <2>7. \A t \in Tables : memory'[t] = catalog'[t] \/ Superseded(t)'
    <3>1. ASSUME NEW t \in Tables, t # p
          PROVE  memory'[t] = catalog'[t] \/ Superseded(t)'
      BY <1>1, <2>2, <2>4, <3>1 DEF Process, Superseded
    <3>2. QED  BY <2>5, <3>1
  <2>8. QED  BY <1>2, <1>3, <1>5, <2>2, <2>3, <2>6, <2>7 DEF Process
<1>6. QED  BY <1>4, <1>5

LEMMA MaintainTyped ==
  ASSUME Typed, Checkpoint \/ Tick \/ Maintain
  PROVE  Typed'
<1>1. TypeOK /\ Process /\ CarriedFinite /\ EntriesNamed
  BY DEF Typed
<1>2. CASE Tick \/ Checkpoint
  <2>1. /\ UNCHANGED <<catalog, rows, identifiers, log, head, marker, memory, granted,
                       pending, outerVars>>
        /\ pc = "idle" /\ granted = Declared /\ pc' \in {"idle", "maintain"}
        /\ checkpoint' = checkpoint \/ TakeCheckpoint
    BY <1>2 DEF Tick, Checkpoint, TakeCheckpoint, Serving, diskVars, processVars
  <2>2. checkpoint' \in Checkpoints /\ IsFiniteSet(checkpoint'.rows)
    BY <1>1, <2>1, TakeCheckpointTyped DEF TypeOK, CarriedFinite
  <2>3. TypeOK'
    BY <1>1, <2>1, <2>2 DEF TypeOK, outerVars
  <2>4. Process'
    BY <1>1, <2>1, ProcessKept DEF outerVars, Process
  <2>5. CarriedFinite' /\ EntriesNamed'
    <3>1. \A t : Carried(t)' = Carried(t)
      BY <2>1 DEF Carried
    <3>2. QED  BY <1>1, <2>1, <2>2, <3>1 DEF CarriedFinite, EntriesNamed, outerVars
  <2>6. QED  BY <2>3, <2>4, <2>5 DEF Typed
<1>3. CASE MaintainCheckpoint
  <2>1. /\ UNCHANGED <<catalog, rows, identifiers, log, head, marker, memory, granted,
                       pending, outerVars>>
        /\ pc = "maintain" /\ pc' = "compact"
        /\ checkpoint' = checkpoint \/ TakeCheckpoint
    BY <1>3 DEF MaintainCheckpoint, TakeCheckpoint, diskVars
  <2>2. checkpoint' \in Checkpoints /\ IsFiniteSet(checkpoint'.rows)
    BY <1>1, <2>1, TakeCheckpointTyped DEF TypeOK, CarriedFinite
  <2>3. TypeOK'
    BY <1>1, <2>1, <2>2 DEF TypeOK, outerVars
  <2>4. Process'
    BY <1>1, <2>1, ProcessKept DEF outerVars, Process
  <2>5. CarriedFinite' /\ EntriesNamed'
    <3>1. \A t : Carried(t)' = Carried(t)
      BY <2>1 DEF Carried
    <3>2. QED  BY <1>1, <2>1, <2>2, <3>1 DEF CarriedFinite, EntriesNamed, outerVars
  <2>6. QED  BY <2>3, <2>4, <2>5 DEF Typed
<1>4. CASE MaintainWithinBudget \/ MaintainRefused \/ MaintainFails
  <2>1. PICK ok \in BOOLEAN : Finish(ok)
    BY <1>4 DEF MaintainWithinBudget, MaintainRefused, MaintainFails
  <2>2. /\ pc \in {"maintain", "compact"}
        /\ UNCHANGED diskVars /\ UNCHANGED <<installed, exported>> /\ spent' \in Spendings
    BY <1>1, <1>4, FaultTyped
       DEF MaintainWithinBudget, MaintainRefused, MaintainFails, outerVars, TypeOK, Spendings
  <2>3. UNCHANGED <<catalog, installed>>
    BY <2>2 DEF diskVars
  <2>4. /\ Process' /\ memory' \in Catalogs /\ granted' \in SUBSET Tables
        /\ pc' \in {"idle", "failed"} /\ pending' = NoPending
    BY <1>1, <2>1, <2>2, <2>3, FinishTyped
  <2>5. TypeOK'
    BY <1>1, <2>2, <2>4 DEF TypeOK, diskVars, Spendings
  <2>6. CarriedFinite' /\ EntriesNamed'
    BY <1>1, <2>2, DiskKept
  <2>7. QED  BY <2>4, <2>5, <2>6 DEF Typed
<1>5. CASE Compact
  <2>1. /\ Finish(TRUE) /\ pc \in {"maintain", "compact"} /\ log' = Uncovered
        /\ UNCHANGED <<catalog, rows, identifiers, head, marker, checkpoint, outerVars>>
    BY <1>5 DEF Compact
  <2>2. UNCHANGED <<catalog, installed>>
    BY <2>1 DEF outerVars
  <2>3. /\ Process' /\ memory' \in Catalogs /\ granted' \in SUBSET Tables
        /\ pc' \in {"idle", "failed"} /\ pending' = NoPending
    BY <1>1, <2>1, <2>2, FinishTyped
  <2>4. log' \in Seq(Entries) /\ \A n \in DOMAIN log' : Named(log'[n].body)
    BY <1>1, <2>1, UncoveredType DEF EntriesNamed
  <2>5. TypeOK'
    BY <1>1, <2>1, <2>3, <2>4 DEF TypeOK, outerVars
  <2>6. CarriedFinite'
    <3>1. \A t : Carried(t)' = Carried(t)
      BY <2>1 DEF Carried
    <3>2. QED  BY <1>1, <2>1, <3>1 DEF CarriedFinite, outerVars
  <2>7. EntriesNamed'
    BY <1>1, <2>1, <2>4 DEF EntriesNamed, outerVars
  <2>8. QED  BY <2>3, <2>5, <2>6, <2>7 DEF Typed
<1>6. QED  BY <1>2, <1>3, <1>4, <1>5 DEF Maintain

LEMMA RestoreTyped ==
  ASSUME Typed, RebuildFromLog \/ ExportCheckpoint \/ ExportSuffix \/ Lose \/ Import
  PROVE  Typed'
<1>1. /\ TypeOK /\ Process /\ CarriedFinite /\ EntriesNamed
      /\ rows \in Rows /\ log \in Seq(Entries)
  BY DEF Typed, TypeOK
<1>2. CASE RebuildFromLog
  <2>1. /\ rows' = Materialize(CanonicalView, rows)
        /\ UNCHANGED <<catalog, identifiers, log, head, marker, checkpoint, processVars,
                       outerVars>>
    BY <1>2 DEF RebuildFromLog
  <2>2. CanonicalView \in Views
    BY <1>1, UncoveredType, TypedFields, FoldType DEF CanonicalView, CarriedFinite
  <2>3. /\ rows' \in Rows
        /\ \A t \in Tables : IsFiniteSet(Carried(t)')
    BY <1>1, <2>1, <2>2, MaterializeType DEF CarriedFinite, Carried
  <2>4. TypeOK'
    BY <1>1, <2>1, <2>3 DEF TypeOK, processVars, outerVars
  <2>5. Process'
    BY <1>1, <1>2, <2>1, ProcessKept DEF processVars, outerVars, RebuildFromLog, Serving, Process
  <2>6. QED
    BY <1>1, <2>1, <2>3, <2>4, <2>5
       DEF Typed, CarriedFinite, EntriesNamed, outerVars
<1>3. CASE ExportCheckpoint \/ ExportSuffix
  <2>1. /\ UNCHANGED <<diskVars, processVars, installed, spent>>
        /\ pc = "idle" /\ granted = Declared
    BY <1>3 DEF ExportCheckpoint, ExportSuffix, Serving
  <2>2. /\ exported' \in [checkpoint : Checkpoints, suffix : Seq(Entries)]
        /\ IsFiniteSet(exported'.checkpoint.rows)
        /\ \A n \in DOMAIN exported'.suffix : Named(exported'.suffix[n].body)
    <3>1. CASE ExportCheckpoint
      <4>1. exported' = [checkpoint |-> checkpoint, suffix |-> <<>>]
        BY <3>1 DEF ExportCheckpoint
      <4>2. checkpoint \in Checkpoints /\ IsFiniteSet(checkpoint.rows)
        BY <1>1 DEF TypeOK, CarriedFinite
      <4>3. <<>> \in Seq(Entries)
        BY EmptySeq
      <4>4. QED  BY <4>1, <4>2, <4>3
    <3>2. CASE ExportSuffix
      <4> DEFINE rest == Suffix(log, exported.checkpoint.last)
      <4>1. exported' = [exported EXCEPT !.suffix = rest]
        BY <3>2 DEF ExportSuffix
      <4>2. /\ exported \in [checkpoint : Checkpoints, suffix : Seq(Entries)]
            /\ IsFiniteSet(exported.checkpoint.rows) /\ exported.checkpoint.last \in Nat
        BY <1>1, TypedFields DEF TypeOK, CarriedFinite
      <4>3. /\ rest \in Seq(Entries)
            /\ \A n \in DOMAIN rest : \E m \in DOMAIN log : rest[n] = log[m]
        BY <1>1, <4>2, SuffixType
      <4>4. \A n \in DOMAIN rest : Named(rest[n].body)
        BY <1>1, <4>3 DEF EntriesNamed
      <4> HIDE DEF rest
      <4>5. exported' = [checkpoint |-> exported.checkpoint, suffix |-> rest]
        BY <4>1, <4>2
      <4>6. QED  BY <4>2, <4>3, <4>4, <4>5
    <3>3. QED  BY <1>3, <3>1, <3>2
  <2>3. TypeOK'
    BY <1>1, <2>1, <2>2 DEF TypeOK, diskVars, processVars
  <2>4. Process'
    BY <1>1, <2>1, ProcessKept DEF diskVars, processVars, Process
  <2>5. CarriedFinite'
    <3>1. \A t : Carried(t)' = Carried(t)
      BY <2>1 DEF Carried, diskVars
    <3>2. QED  BY <1>1, <2>1, <2>2, <3>1 DEF CarriedFinite, diskVars
  <2>6. EntriesNamed'
    BY <1>1, <2>1, <2>2 DEF EntriesNamed, diskVars
  <2>7. QED  BY <2>3, <2>4, <2>5, <2>6 DEF Typed
<1>4. CASE Lose
  <2>1. /\ catalog' = NoCatalog /\ rows' = EmptyRows /\ identifiers' = NoCounters
        /\ log' = <<>> /\ head' = NoDigest /\ marker' = 0 /\ checkpoint' = NoCheckpoint
        /\ UNCHANGED <<processVars, installed, exported>> /\ pc = "closed"
        /\ spent' \in Spendings
    BY <1>1, <1>4, SpendOne DEF Lose, TypeOK, Spendings
  <2>2. log' \in Seq(Entries)
    BY <2>1, EmptySeq
  <2>3. TypeOK'
    BY <1>1, <2>1, <2>2, NothingTyped DEF TypeOK, processVars, Spendings
  <2>4. Process'
    BY <1>1, <2>1 DEF Process, processVars
  <2>5. CarriedFinite'
    <3>1. \A t \in Tables : Carried(t)' = {}
      BY <2>1 DEF Carried, EmptyRows
    <3>2. checkpoint'.rows = {} /\ exported' = exported
      BY <2>1 DEF NoCheckpoint
    <3>3. QED  BY <1>1, <3>1, <3>2, FS_EmptySet DEF CarriedFinite
  <2>6. EntriesNamed'
    BY <1>1, <2>1 DEF EntriesNamed
  <2>7. QED  BY <2>3, <2>4, <2>5, <2>6 DEF Typed
<1>5. CASE Import
  <2> DEFINE source == exported.checkpoint
             suffix == exported.suffix
             view == Fold(source.rows, suffix)
             last == suffix[Len(suffix)]
  <2>1. /\ pc = "idle" /\ memory = NoCatalog /\ catalog = NoCatalog
        /\ memory' = catalog'
        /\ identifiers' = source.counters /\ checkpoint' = source /\ log' = suffix
        /\ head' = IF suffix = <<>> THEN head ELSE EntryDigest(last)
        /\ marker' = IF suffix = <<>> THEN source.last ELSE last.body.sequence
        /\ rows' = Materialize(view, rows)
        /\ UNCHANGED <<pc, granted, pending, outerVars>>
    BY <1>5 DEF Import, Fresh, LastSequence
  <2>2. /\ source \in Checkpoints /\ suffix \in Seq(Entries) /\ source.last \in Nat
        /\ source.counters \in [Tables -> Nat] /\ source.families \in SUBSET Identities
        /\ IsFiniteSet(source.rows) /\ source.rows \in SUBSET ViewRows
    BY <1>1, TypedFields DEF CarriedFinite
  <2>3. suffix # <<>> => last \in Entries
    BY <2>2, EmptySeq, ElementOfSeq
  <2>4. view \in Views
    BY <2>2, FoldType
  <2>5. rows' \in Rows /\ \A t \in Tables : IsFiniteSet(Carried(t)')
    BY <1>1, <2>1, <2>4, MaterializeType DEF CarriedFinite, Carried
  <2>6. catalog' \in Catalogs
    <3>1. catalog' = [t \in Tables |->
                        IF \E identity \in source.families : identity.table = t
                          THEN CHOOSE identity \in source.families : identity.table = t
                          ELSE Absent]
      BY <1>5 DEF Import
    <3>2. QED  BY <2>2, <3>1 DEF Catalogs
  <2> HIDE DEF source, suffix, view, last
  <2>7. head' \in Digests /\ marker' \in Nat
    BY <1>1, <2>1, <2>2, <2>3, EntryDigestType DEF TypeOK, Entries, Bodies
  <2>8. TypeOK'
    BY <1>1, <2>1, <2>2, <2>5, <2>6, <2>7 DEF TypeOK, outerVars
  <2>9. granted = {} /\ pending = NoPending
    <3>1. \A t \in granted : FALSE
      <4>1. ASSUME NEW t \in granted
            PROVE  FALSE
        <5>1. Bound(t) /\ t \in Tables /\ installed \in DOMAIN Components
          BY <1>1 DEF Process, TypeOK
        <5>2. memory[t] # Absent
          BY <5>1, DescriptorFields DEF Bound
        <5>3. QED  BY <2>1, <5>1, <5>2 DEF NoCatalog
      <4>2. QED  BY <4>1
    <3>2. QED  BY <1>1, <2>1, <3>1 DEF Process
  <2>10. Process'
    BY <2>1, <2>9 DEF Process
  <2>11. CarriedFinite'
    BY <1>1, <2>1, <2>2, <2>5 DEF CarriedFinite, outerVars
  <2>12. EntriesNamed'
    BY <1>1, <2>1 DEF EntriesNamed, outerVars, suffix
  <2>13. QED  BY <2>8, <2>10, <2>11, <2>12 DEF Typed
<1>6. QED  BY <1>2, <1>3, <1>4, <1>5

LEMMA TypedNext == Typed /\ [Next]_vars => Typed'
<1> SUFFICES ASSUME Typed, [Next]_vars
             PROVE  Typed'
  OBVIOUS
<1>1. CASE UNCHANGED vars
  <2>1. UNCHANGED <<diskVars, processVars, outerVars>>
    BY <1>1 DEF vars
  <2>2. TypeOK'
    BY <2>1 DEF Typed, TypeOK, diskVars, processVars, outerVars
  <2>3. CarriedFinite' /\ EntriesNamed'
    BY <2>1, DiskKept DEF Typed, outerVars
  <2>4. Process'
    BY <2>1 DEF Typed, Process, Bound, Superseded, Declared, Descriptor, diskVars,
                processVars, outerVars
  <2>5. QED  BY <2>2, <2>3, <2>4 DEF Typed
<1>2. CASE \E d \in Components[installed] : Register(d)
  BY <1>2, RegisterTyped
<1>3. CASE (\E n \in DOMAIN Components : Install(n)) \/ Open \/ Exit \/ Retry \/ Crash
  BY <1>3, ProcessStepsTyped
<1>4. CASE Write
  BY <1>4, WriteTyped
<1>5. CASE Checkpoint \/ Tick \/ Maintain
  BY <1>5, MaintainTyped
<1>6. CASE RebuildFromLog \/ ExportCheckpoint \/ ExportSuffix \/ Lose \/ Import
  BY <1>6, RestoreTyped
<1>7. QED  BY <1>1, <1>2, <1>3, <1>4, <1>5, <1>6 DEF Next

-----------------------------------------------------------------------------
(* The theorems about the process *)

(* What the store is made of stays what it is, over any releases, families,  *)
(* failures, losses and restores.                                            *)
THEOREM TypeCorrect == Spec => []Typed
<1>1. Init => Typed
  BY TypedInit
<1>2. Typed /\ [Next]_vars => Typed'
  BY TypedNext
<1>3. QED  BY <1>1, <1>2, PTL DEF Spec

(* The types alone, as the runs check them. *)
THEOREM FamiliesTyped == Spec => []TypeOK
<1>1. Typed => TypeOK
  BY DEF Typed
<1>2. QED  BY <1>1, TypeCorrect, PTL

(* A table reference speaks of the shape that is in the declaration, in      *)
(* memory and on disk: register_table hands one out only where the three     *)
(* agree, and nothing that can happen while it is held, an evolution of      *)
(* another table that fails in its maintenance included, parts them.         *)
THEOREM ReferencesMatch == Spec => []GrantedMatchesDisk
<1>1. Typed => GrantedMatchesDisk
  BY DEF Typed, Process, Bound, GrantedMatchesDisk
<1>2. QED  BY <1>1, TypeCorrect, PTL

(* Every assertion in the log has its record in the shape that its identity  *)
(* names and that its entry is stamped with: Mint stamps what memory has, and *)
(* memory has what was granted or has just evolved.                          *)
THEOREM EntriesReadable == Spec => []EntriesNameShapes
<1>1. Typed => EntriesNameShapes
  BY DEF Typed, EntriesNamed, Named, WellFormed, EntriesNameShapes
<1>2. QED  BY <1>1, TypeCorrect, PTL

-----------------------------------------------------------------------------
(* The chain *)

DigestAt(digest, n) == SubSeq(digest, 1, n)

Numbered(digest) == \A n \in DOMAIN digest : digest[n].sequence = n

Before(entries, digest) == Len(digest) - Len(entries)

\* The entries are the end of the history a digest commits to.
Linked(entries, digest) ==
  /\ Len(entries) <= Len(digest)
  /\ \A n \in DOMAIN entries :
       /\ entries[n].body = digest[Before(entries, digest) + n]
       /\ entries[n].previous = DigestAt(digest, Before(entries, digest) + n - 1)

Extends(digest, earlier) ==
  Len(earlier) <= Len(digest) /\ earlier = DigestAt(digest, Len(earlier))

ExportedHead ==
  IF exported.suffix = <<>> THEN exported.checkpoint.digest
  ELSE EntryDigest(exported.suffix[Len(exported.suffix)])

StoreChained ==
  /\ Numbered(head) /\ marker = Len(head) /\ Linked(log, head)
  /\ checkpoint.last = Len(checkpoint.digest)
  /\ Extends(head, checkpoint.digest)
  /\ Before(log, head) <= checkpoint.last

\* What was exported need not be in one piece: its suffix may begin past the
\* checkpoint, which the import then finds.
ExportChained ==
  /\ Numbered(ExportedHead) /\ Linked(exported.suffix, ExportedHead)
  /\ exported.checkpoint.last = Len(exported.checkpoint.digest)
  /\ Extends(ExportedHead, exported.checkpoint.digest)

Chained == StoreChained /\ ExportChained

(* The prefixes of a history. *)
LEMMA PrefixFacts ==
  ASSUME NEW digest \in Digests, NEW n \in 0 .. Len(digest)
  PROVE  /\ DigestAt(digest, n) \in Digests
         /\ Len(DigestAt(digest, n)) = n
         /\ \A i \in 1 .. n : DigestAt(digest, n)[i] = digest[i]
<1>1. digest \in Seq(Bodies) /\ Len(digest) \in Nat /\ n \in Nat /\ n <= Len(digest)
  BY LenProperties DEF Digests
<1>2. \A i \in 1 .. n : i \in 1 .. Len(digest)
  BY <1>1
<1>3. \A i \in 1 .. n : digest[i] \in Bodies
  BY <1>1, <1>2, ElementOfSeq
<1>4. 1 \in Int /\ n \in Int
  BY <1>1
<1>5. /\ SubSeq(digest, 1, n) \in Seq(Bodies)
      /\ Len(SubSeq(digest, 1, n)) = IF 1 <= n THEN n - 1 + 1 ELSE 0
      /\ \A i \in 1 .. n - 1 + 1 : SubSeq(digest, 1, n)[i] = digest[1 + i - 1]
  BY <1>3, <1>4, SubSeqProperties
<1>6. (IF 1 <= n THEN n - 1 + 1 ELSE 0) = n /\ n - 1 + 1 = n
      /\ \A i \in 1 .. n : 1 + i - 1 = i
  BY <1>1
<1>7. QED  BY <1>5, <1>6 DEF DigestAt, Digests

LEMMA PrefixNext ==
  ASSUME NEW digest \in Digests, NEW n \in 1 .. Len(digest)
  PROVE  Append(DigestAt(digest, n - 1), digest[n]) = DigestAt(digest, n)
<1>1. /\ digest \in Seq(Bodies) /\ Len(digest) \in Nat /\ digest[n] \in Bodies
      /\ n - 1 \in 0 .. Len(digest) /\ 1 \in 1 .. Len(digest) /\ n \in 1 .. Len(digest)
  BY LenProperties, ElementOfSeq DEF Digests
<1>2. DigestAt(digest, n - 1) \in Seq(Bodies)
  BY <1>1, PrefixFacts DEF Digests
<1>3. SubSeq(digest, 1, n) = SubSeq(digest, 1, n - 1) \o <<digest[n]>>
  BY <1>1, SubSeqRecursiveSecond
<1>4. Append(DigestAt(digest, n - 1), digest[n]) = DigestAt(digest, n - 1) \o <<digest[n]>>
  BY <1>1, <1>2, AppendIsConcat
<1>5. QED  BY <1>3, <1>4 DEF DigestAt

LEMMA PrefixFull ==
  ASSUME NEW digest \in Digests
  PROVE  DigestAt(digest, Len(digest)) = digest
  BY SubSeqFull DEF Digests, DigestAt

LEMMA AppendDigest ==
  ASSUME NEW digest \in Digests, NEW body \in Bodies
  PROVE  /\ Append(digest, body) \in Digests
         /\ Len(Append(digest, body)) = Len(digest) + 1
         /\ Len(digest) \in Nat
         /\ \A n \in 1 .. Len(digest) : Append(digest, body)[n] = digest[n]
         /\ Append(digest, body)[Len(digest) + 1] = body
  BY AppendProperties, LenProperties DEF Digests

LEMMA PrefixOfAppend ==
  ASSUME NEW digest \in Digests, NEW body \in Bodies, NEW n \in 0 .. Len(digest)
  PROVE  DigestAt(Append(digest, body), n) = DigestAt(digest, n)
<1> DEFINE longer == Append(digest, body)
<1>1. /\ longer \in Digests /\ Len(longer) = Len(digest) + 1 /\ Len(digest) \in Nat
      /\ \A i \in 1 .. Len(digest) : longer[i] = digest[i]
  BY AppendDigest
<1> HIDE DEF longer
<1>2. n \in 0 .. Len(longer) /\ n \in Nat /\ \A i \in 1 .. n : i \in 1 .. Len(digest)
  BY <1>1
<1>3. /\ DigestAt(longer, n) \in Seq(Bodies) /\ Len(DigestAt(longer, n)) = n
      /\ \A i \in 1 .. n : DigestAt(longer, n)[i] = longer[i]
      /\ DigestAt(digest, n) \in Seq(Bodies) /\ Len(DigestAt(digest, n)) = n
      /\ \A i \in 1 .. n : DigestAt(digest, n)[i] = digest[i]
  BY <1>1, <1>2, PrefixFacts DEF Digests
<1>4. \A i \in 1 .. n : DigestAt(longer, n)[i] = DigestAt(digest, n)[i]
  BY <1>1, <1>2, <1>3
<1>5. DigestAt(longer, n) = DigestAt(digest, n)
  BY <1>3, <1>4, SeqEqual
<1>6. QED  BY <1>5 DEF longer

LEMMA PrefixOfPrefix ==
  ASSUME NEW digest \in Digests, NEW m \in 0 .. Len(digest), NEW n \in 0 .. m
  PROVE  DigestAt(DigestAt(digest, m), n) = DigestAt(digest, n)
<1> DEFINE shorter == DigestAt(digest, m)
<1>1. /\ shorter \in Digests /\ Len(shorter) = m /\ Len(digest) \in Nat /\ m \in Nat
      /\ n \in Nat /\ n <= m /\ m <= Len(digest)
      /\ \A i \in 1 .. m : shorter[i] = digest[i]
  <2>1. Len(digest) \in Nat
    BY LenProperties DEF Digests
  <2>2. m \in Nat /\ n \in Nat /\ n <= m /\ m <= Len(digest)
    BY <2>1
  <2>3. QED  BY <2>1, <2>2, PrefixFacts
<1> HIDE DEF shorter
<1>2. n \in 0 .. Len(shorter) /\ n \in 0 .. Len(digest) /\ \A i \in 1 .. n : i \in 1 .. m
  BY <1>1
<1>3. /\ DigestAt(shorter, n) \in Seq(Bodies) /\ Len(DigestAt(shorter, n)) = n
      /\ \A i \in 1 .. n : DigestAt(shorter, n)[i] = shorter[i]
      /\ DigestAt(digest, n) \in Seq(Bodies) /\ Len(DigestAt(digest, n)) = n
      /\ \A i \in 1 .. n : DigestAt(digest, n)[i] = digest[i]
  BY <1>1, <1>2, PrefixFacts DEF Digests
<1>4. \A i \in 1 .. n : DigestAt(shorter, n)[i] = DigestAt(digest, n)[i]
  BY <1>1, <1>2, <1>3
<1>5. DigestAt(shorter, n) = DigestAt(digest, n)
  BY <1>3, <1>4, SeqEqual
<1>6. QED  BY <1>5 DEF shorter

LEMMA LinkedDigest ==
  ASSUME NEW entries \in Seq(Entries), NEW digest \in Digests, Linked(entries, digest),
         NEW n \in DOMAIN entries
  PROVE  /\ Before(entries, digest) \in Nat
         /\ Before(entries, digest) + n \in 1 .. Len(digest)
         /\ EntryDigest(entries[n]) = DigestAt(digest, Before(entries, digest) + n)
<1> DEFINE b == Before(entries, digest)
<1>1. /\ Len(entries) \in Nat /\ Len(digest) \in Nat /\ n \in 1 .. Len(entries)
      /\ Len(entries) <= Len(digest)
  BY LenProperties DEF Digests, Linked
<1>2. b \in Nat /\ b + n \in 1 .. Len(digest) /\ b + n - 1 = (b + n) - 1
  BY <1>1 DEF Before
<1>3. /\ entries[n].body = digest[b + n]
      /\ entries[n].previous = DigestAt(digest, b + n - 1)
  BY DEF Linked
<1> HIDE DEF b
<1>4. Append(DigestAt(digest, (b + n) - 1), digest[b + n]) = DigestAt(digest, b + n)
  BY <1>2, PrefixNext
<1>5. EntryDigest(entries[n]) = DigestAt(digest, b + n)
  <2>1. EntryDigest(entries[n]) = Append(entries[n].previous, entries[n].body)
    BY DEF EntryDigest
  <2>2. entries[n].previous = DigestAt(digest, (b + n) - 1)
    BY <1>2, <1>3, Zenon
  <2>3. entries[n].body = digest[b + n]
    BY <1>3
  <2>4. QED  BY <1>4, <2>1, <2>2, <2>3, Zenon
<1>6. QED  BY <1>2, <1>5 DEF b

LEMMA LinkedHead ==
  ASSUME NEW entries \in Seq(Entries), NEW digest \in Digests, Linked(entries, digest),
         Numbered(digest), entries # <<>>
  PROVE  /\ Len(entries) \in DOMAIN entries
         /\ EntryDigest(entries[Len(entries)]) = digest
         /\ entries[Len(entries)].body.sequence = Len(digest)
<1> DEFINE b == Before(entries, digest)
<1>1. /\ Len(entries) \in Nat \ {0} /\ Len(digest) \in Nat /\ DOMAIN digest = 1 .. Len(digest)
      /\ DOMAIN entries = 1 .. Len(entries)
  BY LenProperties, EmptySeq DEF Digests
<1>2. Len(entries) \in DOMAIN entries
  BY <1>1
<1>3. b \in Nat /\ b + Len(entries) = Len(digest) /\ Len(digest) \in DOMAIN digest
  BY <1>1, <1>2, LinkedDigest DEF Before
<1>4. EntryDigest(entries[Len(entries)]) = DigestAt(digest, b + Len(entries))
  BY <1>2, LinkedDigest
<1>5. entries[Len(entries)].body = digest[b + Len(entries)]
  BY <1>2 DEF Linked
<1> HIDE DEF b
<1>6. QED  BY <1>2, <1>3, <1>4, <1>5, PrefixFull DEF Numbered

(* One more entry. *)
LEMMA ChainAppend ==
  ASSUME NEW entries \in Seq(Entries), NEW digest \in Digests, NEW entry \in Entries,
         Linked(entries, digest), Numbered(digest),
         entry.previous = digest, entry.body.sequence = Len(digest) + 1
  PROVE  /\ EntryDigest(entry) = Append(digest, entry.body)
         /\ Numbered(EntryDigest(entry))
         /\ Len(EntryDigest(entry)) = Len(digest) + 1
         /\ Linked(Append(entries, entry), EntryDigest(entry))
         /\ Before(Append(entries, entry), EntryDigest(entry)) = Before(entries, digest)
<1> DEFINE longer == Append(digest, entry.body)
           more == Append(entries, entry)
<1>1. entry.body \in Bodies
  BY DEF Entries
<1>2. /\ longer \in Digests /\ Len(longer) = Len(digest) + 1 /\ Len(digest) \in Nat
      /\ \A n \in 1 .. Len(digest) : longer[n] = digest[n]
      /\ longer[Len(digest) + 1] = entry.body
  BY <1>1, AppendDigest
<1>3. /\ Len(more) = Len(entries) + 1 /\ Len(entries) \in Nat
      /\ DOMAIN more = 1 .. Len(entries) + 1 /\ DOMAIN entries = 1 .. Len(entries)
      /\ \A n \in 1 .. Len(entries) : more[n] = entries[n]
      /\ more[Len(entries) + 1] = entry
  BY AppendProperties, LenProperties
<1>4. EntryDigest(entry) = longer
  BY DEF EntryDigest
<1>5. Numbered(longer)
  <2>1. DOMAIN longer = 1 .. Len(digest) + 1 /\ DOMAIN digest = 1 .. Len(digest)
    BY <1>2, LenProperties DEF Digests
  <2> HIDE DEF longer
  <2>2. ASSUME NEW n \in 1 .. Len(digest) + 1
        PROVE  longer[n].sequence = n
    <3>1. n \in 1 .. Len(digest) \/ n = Len(digest) + 1
      BY <1>2
    <3>2. QED  BY <1>2, <2>1, <3>1 DEF Numbered
  <2>3. QED  BY <2>1, <2>2 DEF Numbered
<1> HIDE DEF longer, more
<1>6. Len(entries) <= Len(digest)
  BY DEF Linked
<1>7. Before(more, longer) = Before(entries, digest) /\ Before(entries, digest) \in Nat
  BY <1>2, <1>3, <1>6 DEF Before
<1>8. ASSUME NEW n \in DOMAIN more
      PROVE  /\ more[n].body = longer[Before(entries, digest) + n]
             /\ more[n].previous = DigestAt(longer, Before(entries, digest) + n - 1)
  <2>1. CASE n \in 1 .. Len(entries)
    <3>1. /\ more[n] = entries[n] /\ n \in DOMAIN entries
          /\ Before(entries, digest) + n \in 1 .. Len(digest)
          /\ Before(entries, digest) + n - 1 \in 0 .. Len(digest)
      BY <1>2, <1>3, <1>6, <2>1 DEF Before
    <3>2. DigestAt(longer, Before(entries, digest) + n - 1)
            = DigestAt(digest, Before(entries, digest) + n - 1)
      BY <1>1, <3>1, PrefixOfAppend DEF longer
    <3>3. QED  BY <1>2, <3>1, <3>2 DEF Linked
  <2>2. CASE n = Len(entries) + 1
    <3>1. /\ Before(entries, digest) + n = Len(digest) + 1
          /\ Before(entries, digest) + n - 1 = Len(digest) /\ Len(digest) \in 0 .. Len(digest)
      BY <1>2, <1>3, <2>2 DEF Before
    <3>2. DigestAt(longer, Len(digest)) = digest
      BY <1>1, <3>1, PrefixOfAppend, PrefixFull DEF longer
    <3>3. QED  BY <1>2, <1>3, <2>2, <3>1, <3>2
  <2>3. QED  BY <1>3, <2>1, <2>2
<1>9. Linked(more, longer)
  <2>1. Len(more) <= Len(longer)
    BY <1>2, <1>3, <1>6
  <2>2. QED  BY <1>7, <1>8, <2>1 DEF Linked
<1>10. QED  BY <1>2, <1>4, <1>5, <1>7, <1>9 DEF longer, more

(* Earlier points of a history. *)
LEMMA ExtendsFacts ==
  ASSUME NEW digest \in Digests, NEW earlier \in Digests, Extends(digest, earlier)
  PROVE  /\ Len(earlier) \in 0 .. Len(digest)
         /\ Numbered(digest) => Numbered(earlier)
         /\ \A body \in Bodies : Extends(Append(digest, body), earlier)
<1>1. /\ Len(digest) \in Nat /\ Len(earlier) \in Nat /\ Len(earlier) <= Len(digest)
      /\ DOMAIN earlier = 1 .. Len(earlier) /\ DOMAIN digest = 1 .. Len(digest)
  BY LenProperties DEF Digests, Extends
<1>2. Len(earlier) \in 0 .. Len(digest)
  BY <1>1
<1>3. \A n \in 1 .. Len(earlier) : earlier[n] = digest[n] /\ n \in 1 .. Len(digest)
  BY <1>1, <1>2, PrefixFacts DEF Extends
<1>4. Numbered(digest) => Numbered(earlier)
  BY <1>1, <1>3 DEF Numbered
<1>5. ASSUME NEW body \in Bodies
      PROVE  Extends(Append(digest, body), earlier)
  <2>1. Len(Append(digest, body)) = Len(digest) + 1
    BY AppendDigest
  <2>2. DigestAt(Append(digest, body), Len(earlier)) = DigestAt(digest, Len(earlier))
    BY <1>2, PrefixOfAppend
  <2>3. Len(earlier) <= Len(digest) + 1
    BY <1>1
  <2>4. QED  BY <2>1, <2>2, <2>3 DEF Extends
<1>6. QED  BY <1>2, <1>4, <1>5

LEMMA ExtendsItself ==
  ASSUME NEW digest \in Digests
  PROVE  Extends(digest, digest) /\ Linked(<<>>, digest)
<1>1. Len(digest) \in Nat
  BY LenProperties DEF Digests
<1>2. Len(<<>>) = 0 /\ DOMAIN <<>> = {}
  BY EmptySeq
<1>3. Extends(digest, digest)
  BY <1>1, PrefixFull DEF Extends
<1>4. Linked(<<>>, digest)
  BY <1>1, <1>2 DEF Linked
<1>5. QED  BY <1>3, <1>4

(* The suffix a linked log is read to begins right past what it was asked to  *)
(* begin past, or where the log itself begins.                               *)
LEMMA SuffixLinked ==
  ASSUME NEW entries \in Seq(Entries), NEW digest \in Digests, Linked(entries, digest),
         Numbered(digest), NEW after \in 0 .. Len(digest)
  PROVE  /\ Linked(Suffix(entries, after), digest)
         /\ Before(entries, digest) <= after => Before(Suffix(entries, after), digest) = after
<1> DEFINE b == Before(entries, digest)
           N == Len(entries)
           H == Len(digest)
           rest == Suffix(entries, after)
           c == IF b <= after THEN after - b ELSE 0
<1>1. /\ N \in Nat /\ H \in Nat /\ after \in Nat /\ after <= H /\ N <= H /\ b = H - N
      /\ DOMAIN entries = 1 .. N /\ DOMAIN digest = 1 .. H
  <2>1. N \in Nat /\ H \in Nat /\ DOMAIN entries = 1 .. N /\ DOMAIN digest = 1 .. H
    BY LenProperties DEF Digests
  <2>2. N <= H /\ b = H - N
    BY DEF Linked, Before
  <2>3. QED  BY <2>1, <2>2
<1>2. b \in Nat
  BY <1>1
<1>3. \A n \in 1 .. N : entries[n].body.sequence = b + n
  <2>1. ASSUME NEW n \in 1 .. N
        PROVE  entries[n].body.sequence = b + n
    <3>1. b + n \in 1 .. H
      BY <1>1
    <3>2. entries[n].body = digest[b + n]
      BY <1>1 DEF Linked
    <3>3. QED  BY <1>1, <3>1, <3>2 DEF Numbered
  <2>2. QED  BY <2>1
<1> HIDE DEF N, H, b
<1>4. c \in 0 .. N
  BY <1>1, <1>2
<1>5. CoveredBy(entries, after) = 1 .. c
  <2>1. \A n \in 1 .. N : b + n <= after <=> n \in 1 .. c
    BY <1>1, <1>2
  <2>2. CoveredBy(entries, after) = {n \in 1 .. N : b + n <= after}
    BY <1>1, <1>3 DEF CoveredBy
  <2>3. 1 .. c \subseteq 1 .. N
    BY <1>1, <1>4
  <2> HIDE DEF c
  <2>4. QED  BY <2>1, <2>2, <2>3
<1> HIDE DEF c
<1>6. Cardinality(CoveredBy(entries, after)) = c
  BY <1>1, <1>4, <1>5, FS_Interval
<1>7. /\ rest \in Seq(Entries)
      /\ Len(rest) = IF c + 1 <= N THEN N - c ELSE 0
      /\ \A n \in DOMAIN rest : c + n \in DOMAIN entries /\ rest[n] = entries[c + n]
  <2>1. after \in Nat
    BY <1>1
  <2>2. QED  BY <1>6, <2>1, SuffixType DEF N
<1>8. DOMAIN rest = 1 .. Len(rest) /\ Len(rest) = N - c
  <2>1. (IF c + 1 <= N THEN N - c ELSE 0) = N - c
    BY <1>1, <1>4
  <2>2. QED  BY <1>7, <2>1, LenProperties
<1> HIDE DEF rest
<1>9. Before(rest, digest) = b + c
  BY <1>1, <1>4, <1>8 DEF Before, H
<1>10. Linked(rest, digest)
  <2>1. Len(rest) <= Len(digest)
    BY <1>1, <1>4, <1>8 DEF H
  <2>2. ASSUME NEW n \in DOMAIN rest
        PROVE  /\ rest[n].body = digest[(b + c) + n]
               /\ rest[n].previous = DigestAt(digest, (b + c) + n - 1)
    <3>1. b + (c + n) = (b + c) + n /\ b + (c + n) - 1 = (b + c) + n - 1
      BY <1>1, <1>2, <1>4, <1>8
    <3>2. c + n \in DOMAIN entries /\ rest[n] = entries[c + n]
      BY <1>7
    <3>3. /\ entries[c + n].body = digest[b + (c + n)]
          /\ entries[c + n].previous = DigestAt(digest, b + (c + n) - 1)
      BY <3>2 DEF Linked, b
    <3>4. QED  BY <3>1, <3>2, <3>3, Zenon
  <2>3. QED  BY <1>9, <2>1, <2>2 DEF Linked
<1>11. b <= after => b + c = after
  BY <1>1, <1>2 DEF c
<1>12. QED  BY <1>9, <1>10, <1>11 DEF rest, b

(* Entries that begin right past a point of their history verify from it. *)
LEMMA LinkedVerifies ==
  ASSUME NEW entries \in Seq(Entries), NEW digest \in Digests, NEW earlier \in Digests,
         Linked(entries, digest), Extends(digest, earlier),
         Before(entries, digest) = Len(earlier)
  PROVE  ChainVerifies(entries, earlier)
<1> DEFINE b == Before(entries, digest)
<1>1. /\ DOMAIN entries = 1 .. Len(entries) /\ Len(entries) \in Nat
      /\ b \in Nat /\ b = Len(earlier)
  BY LenProperties DEF Digests
<1>2. ASSUME NEW n \in DOMAIN entries
      PROVE  entries[n].previous = IF n = 1 THEN earlier ELSE EntryDigest(entries[n - 1])
  <2>1. entries[n].previous = DigestAt(digest, b + n - 1)
    BY DEF Linked
  <2>2. CASE n = 1
    <3>1. b + n - 1 = Len(earlier)
      BY <1>1, <2>2
    <3>2. QED  BY <2>1, <2>2, <3>1 DEF Extends
  <2>3. CASE n # 1
    <3>1. n - 1 \in DOMAIN entries /\ b + (n - 1) = b + n - 1
      BY <1>1, <2>3
    <3>2. EntryDigest(entries[n - 1]) = DigestAt(digest, b + (n - 1))
      BY <3>1, LinkedDigest
    <3> HIDE DEF b
    <3>3. QED  BY <2>1, <2>3, <3>1, <3>2
  <2>4. QED  BY <2>2, <2>3
<1>3. QED  BY <1>2 DEF ChainVerifies

LEMMA UncoveredChained ==
  ASSUME TypeOK, StoreChained
  PROVE  /\ Uncovered \in Seq(Entries) /\ Linked(Uncovered, head)
         /\ Before(Uncovered, head) = checkpoint.last
         /\ FoldVerifies
         /\ Uncovered # <<>> => /\ EntryDigest(Uncovered[Len(Uncovered)]) = head
                                /\ Uncovered[Len(Uncovered)].body.sequence = Len(head)
<1>1. /\ log \in Seq(Entries) /\ head \in Digests /\ checkpoint.digest \in Digests
  BY TypedFields DEF TypeOK
<1>2. checkpoint.last \in 0 .. Len(head)
  BY <1>1, ExtendsFacts DEF StoreChained
<1>3. /\ Uncovered \in Seq(Entries) /\ Linked(Uncovered, head)
      /\ Before(Uncovered, head) = checkpoint.last
  BY <1>1, <1>2, UncoveredType, SuffixLinked DEF StoreChained, Uncovered
<1>4. FoldVerifies
  BY <1>1, <1>3, LinkedVerifies DEF StoreChained, FoldVerifies
<1>5. QED  BY <1>1, <1>3, <1>4, LinkedHead DEF StoreChained

-----------------------------------------------------------------------------
(* The steps keep the chain *)

LEMMA ChainedInit == Init => Chained
<1> SUFFICES ASSUME Init
             PROVE  Chained
  OBVIOUS
<1>1. /\ NoDigest \in Digests /\ Len(NoDigest) = 0 /\ DOMAIN NoDigest = {} /\ NoDigest = <<>>
  BY NothingTyped, EmptySeq DEF NoDigest
<1>2. Extends(NoDigest, NoDigest) /\ Linked(<<>>, NoDigest)
  BY <1>1, ExtendsItself
<1>3. /\ head = NoDigest /\ log = <<>> /\ marker = 0
      /\ checkpoint.last = 0 /\ checkpoint.digest = NoDigest
      /\ exported.checkpoint.last = 0 /\ exported.checkpoint.digest = NoDigest
      /\ exported.suffix = <<>>
  BY DEF Init, NoCheckpoint, NoExport
<1>4. ExportedHead = NoDigest
  BY <1>3 DEF ExportedHead
<1>5. Numbered(NoDigest)
  BY <1>1 DEF Numbered
<1>6. Before(<<>>, NoDigest) <= 0
  BY <1>1 DEF Before
<1>7. QED  BY <1>1, <1>2, <1>3, <1>4, <1>5, <1>6 DEF Chained, StoreChained, ExportChained

LEMMA StoreChainedKept ==
  ASSUME StoreChained, UNCHANGED <<log, head, marker, checkpoint>>
  PROVE  StoreChained'
  BY DEF StoreChained

LEMMA ExportChainedKept ==
  ASSUME ExportChained, exported' = exported
  PROVE  ExportChained'
<1>1. ExportedHead' = ExportedHead
  BY DEF ExportedHead
<1>2. QED  BY <1>1 DEF ExportChained

LEMMA AppendEntryChained ==
  ASSUME TypeOK, StoreChained, NEW operations \in Seq(Operations), NEW families \in Catalogs,
         AppendEntry(Mint(operations, families)), checkpoint' = checkpoint
  PROVE  StoreChained'
<1>1. PICK entry \in Entries :
        /\ entry = Mint(operations, families)
        /\ entry.body.sequence = marker + 1 /\ entry.previous = head
  BY MintType
<1>2. /\ log' = Append(log, entry) /\ head' = EntryDigest(entry)
      /\ marker' = marker + 1
  BY <1>1 DEF AppendEntry
<1>3. /\ log \in Seq(Entries) /\ head \in Digests /\ checkpoint.digest \in Digests
  BY TypedFields DEF TypeOK
<1>4. /\ EntryDigest(entry) = Append(head, entry.body)
      /\ Numbered(EntryDigest(entry))
      /\ Len(EntryDigest(entry)) = Len(head) + 1
      /\ Linked(Append(log, entry), EntryDigest(entry))
      /\ Before(Append(log, entry), EntryDigest(entry)) = Before(log, head)
  BY <1>1, <1>3, ChainAppend DEF StoreChained
<1>5. Extends(EntryDigest(entry), checkpoint.digest)
  <2>1. entry.body \in Bodies
    BY DEF Entries
  <2>2. QED  BY <1>3, <1>4, <2>1, ExtendsFacts DEF StoreChained
<1>6. QED  BY <1>2, <1>4, <1>5 DEF StoreChained

LEMMA TakeCheckpointChained ==
  ASSUME TypeOK, StoreChained, TakeCheckpoint
  PROVE  /\ StoreChained'
         /\ checkpoint'.digest = head /\ checkpoint'.last = marker
<1>1. /\ checkpoint'.last = Uncovered[Len(Uncovered)].body.sequence
      /\ checkpoint'.digest = EntryDigest(Uncovered[Len(Uncovered)])
      /\ Uncovered # <<>>
      /\ UNCHANGED <<log, head, marker>>
  BY DEF TakeCheckpoint
<1>2. checkpoint'.digest = head /\ checkpoint'.last = Len(head)
  BY <1>1, UncoveredChained
<1>3. /\ head \in Digests /\ log \in Seq(Entries)
      /\ Extends(head, head)
  BY ExtendsItself DEF TypeOK
<1>4. Before(log, head) <= Len(head)
  BY <1>3, LenProperties DEF Before, Digests
<1>5. QED  BY <1>1, <1>2, <1>3, <1>4 DEF StoreChained

LEMMA CompactChained ==
  ASSUME TypeOK, StoreChained, log' = Uncovered, UNCHANGED <<head, marker, checkpoint>>
  PROVE  StoreChained'
<1>1. /\ Linked(log', head) /\ Before(log', head) = checkpoint.last
  BY UncoveredChained
<1>2. checkpoint.last \in Nat
  BY TypedFields
<1>3. QED  BY <1>1, <1>2 DEF StoreChained

LEMMA ExportCheckpointChained ==
  ASSUME TypeOK, StoreChained, ExportCheckpoint
  PROVE  ExportChained'
<1>1. exported'.checkpoint = checkpoint /\ exported'.suffix = <<>>
  BY DEF ExportCheckpoint
<1>2. checkpoint.digest \in Digests /\ head \in Digests
  BY TypedFields DEF TypeOK
<1>3. /\ Numbered(checkpoint.digest)
      /\ Extends(checkpoint.digest, checkpoint.digest) /\ Linked(<<>>, checkpoint.digest)
  BY <1>2, ExtendsFacts, ExtendsItself DEF StoreChained
<1>4. ExportedHead' = checkpoint.digest
  BY <1>1 DEF ExportedHead
<1>5. QED  BY <1>1, <1>3, <1>4 DEF ExportChained, StoreChained

LEMMA ExportSuffixChained ==
  ASSUME TypeOK, StoreChained, ExportChained, ExportSuffix
  PROVE  ExportChained'
<1>1. /\ exported'.checkpoint = exported.checkpoint
      /\ exported'.suffix = Suffix(log, exported.checkpoint.last)
      /\ exported.checkpoint.last <= Len(head)
      /\ exported.checkpoint.digest = DigestAt(head, exported.checkpoint.last)
  BY DEF ExportSuffix, TypeOK, DigestAt
<1>2. /\ log \in Seq(Entries) /\ head \in Digests /\ Len(head) \in Nat
      /\ exported.checkpoint.digest \in Digests
      /\ exported.checkpoint.last \in 0 .. Len(head)
      /\ exported.checkpoint.last = Len(exported.checkpoint.digest)
  <2>1. log \in Seq(Entries) /\ head \in Digests /\ Len(head) \in Nat
    BY LenProperties DEF TypeOK, Digests
  <2>2. exported.checkpoint.last \in Nat
    BY TypedFields
  <2>3. QED  BY <1>1, <2>1, <2>2, TypedFields DEF ExportChained
<1>3. Extends(head, exported.checkpoint.digest)
  BY <1>1, <1>2 DEF Extends
<1> DEFINE rest == Suffix(log, exported.checkpoint.last)
<1>4. Linked(rest, head) /\ rest \in Seq(Entries)
  <2>1. Linked(rest, head)
    BY <1>2, SuffixLinked DEF StoreChained
  <2>2. rest \in Seq(Entries)
    BY <1>2, TypedFields, SuffixType
  <2>3. QED  BY <2>1, <2>2
<1> HIDE DEF rest
<1>5. CASE rest = <<>>
  <2>1. /\ Numbered(exported.checkpoint.digest)
        /\ Extends(exported.checkpoint.digest, exported.checkpoint.digest)
        /\ Linked(<<>>, exported.checkpoint.digest)
    BY <1>2, <1>3, ExtendsFacts, ExtendsItself DEF StoreChained
  <2>2. exported'.suffix = <<>> /\ ExportedHead' = exported.checkpoint.digest
    BY <1>1, <1>5 DEF ExportedHead, rest
  <2>3. QED  BY <1>1, <1>2, <2>1, <2>2 DEF ExportChained
<1>6. CASE rest # <<>>
  <2>1. EntryDigest(rest[Len(rest)]) = head
    BY <1>2, <1>4, <1>6, LinkedHead DEF StoreChained
  <2>2. exported'.suffix = rest /\ ExportedHead' = head
    BY <1>1, <1>6, <2>1 DEF ExportedHead, rest
  <2>3. QED  BY <1>1, <1>2, <1>3, <1>4, <2>2 DEF ExportChained, StoreChained
<1>7. QED  BY <1>5, <1>6

LEMMA LoseChained ==
  ASSUME Lose
  PROVE  StoreChained'
<1>1. /\ NoDigest \in Digests /\ Len(NoDigest) = 0 /\ DOMAIN NoDigest = {} /\ NoDigest = <<>>
  BY NothingTyped, EmptySeq DEF NoDigest
<1>2. Extends(NoDigest, NoDigest) /\ Linked(<<>>, NoDigest)
  BY <1>1, ExtendsItself
<1>3. /\ head' = NoDigest /\ log' = <<>> /\ marker' = 0
      /\ checkpoint'.last = 0 /\ checkpoint'.digest = NoDigest
  BY DEF Lose, NoCheckpoint
<1>4. Numbered(NoDigest)
  BY <1>1 DEF Numbered
<1>5. Before(<<>>, NoDigest) <= 0
  BY <1>1 DEF Before
<1>6. QED  BY <1>1, <1>2, <1>3, <1>4, <1>5 DEF StoreChained

(* A suffix that verifies from a point of its history begins right past it. *)
LEMMA VerifiedBegins ==
  ASSUME NEW entries \in Seq(Entries), NEW digest \in Digests, NEW earlier \in Digests,
         Linked(entries, digest), ChainVerifies(entries, earlier), entries # <<>>
  PROVE  Before(entries, digest) = Len(earlier)
<1> DEFINE b == Before(entries, digest)
<1>1. 1 \in DOMAIN entries
  <2>1. DOMAIN entries = 1 .. Len(entries) /\ Len(entries) \in Nat \ {0}
    BY LenProperties, EmptySeq
  <2>2. QED  BY <2>1
<1>2. b \in Nat /\ b + 1 \in 1 .. Len(digest) /\ Len(digest) \in Nat
  BY <1>1, LinkedDigest, LenProperties DEF Digests
<1>3. entries[1].previous = earlier
  BY <1>1 DEF ChainVerifies
<1>4. entries[1].previous = DigestAt(digest, b + 1 - 1)
  BY <1>1 DEF Linked
<1> HIDE DEF b
<1>5. b + 1 - 1 = b /\ b \in 0 .. Len(digest)
  BY <1>2
<1>6. Len(DigestAt(digest, b)) = b
  BY <1>5, PrefixFacts
<1>7. QED  BY <1>3, <1>4, <1>5, <1>6 DEF b

LEMMA ImportChained ==
  ASSUME TypeOK, ExportChained, Import, "empty" \notin Handed
  PROVE  /\ StoreChained'
         /\ exported.suffix # <<>> /\ head' = ExportedHead
         /\ Before(exported.suffix, ExportedHead) = exported.checkpoint.last
<1>1. /\ exported.suffix # <<>>
      /\ ChainVerifies(exported.suffix, exported.checkpoint.digest)
      /\ log' = exported.suffix /\ checkpoint' = exported.checkpoint
      /\ head' = ExportedHead
      /\ marker' = exported.suffix[Len(exported.suffix)].body.sequence
  BY DEF Import, HandedOver, ExportedHead, LastSequence
<1>2. /\ exported.suffix \in Seq(Entries) /\ exported.checkpoint.digest \in Digests
      /\ exported.checkpoint.last \in Nat
  BY TypedFields
<1>3. ExportedHead \in Digests
  <2>1. exported.suffix[Len(exported.suffix)] \in Entries
    BY <1>1, <1>2, EmptySeq, ElementOfSeq
  <2>2. QED  BY <1>1, <2>1, EntryDigestType DEF ExportedHead
<1>4. marker' = Len(ExportedHead)
  BY <1>1, <1>2, <1>3, LinkedHead DEF ExportChained
<1>5. Before(exported.suffix, ExportedHead) = exported.checkpoint.last
  BY <1>1, <1>2, <1>3, VerifiedBegins DEF ExportChained
<1>6. QED  BY <1>1, <1>2, <1>4, <1>5 DEF StoreChained, ExportChained

(* What writes and evolutions append. *)
LEMMA WriteAppends ==
  ASSUME TypeOK, Process, Write
  PROVE  \E operations \in Seq(Operations) : AppendEntry(Mint(operations, memory))
<1>1. PICK t \in granted, kind \in {"Assert", "Mutate", "Retract"},
           k \in RecordKeys, payload \in Records \cup {Absent} :
        OneRecord(t, kind, k, payload)
  BY WriteIsOneRecord
<1>2. memory[t] \in Identities
  <2>1. t \in Tables /\ Bound(t) /\ installed \in DOMAIN Components
    BY DEF TypeOK, Process
  <2>2. QED  BY <2>1, DescriptorFields DEF Bound
<1>3. Operation(kind, t, k, payload) \in Operations
  BY <1>2 DEF Operation, Operations
<1>4. <<Operation(kind, t, k, payload)>> \in Seq(Operations)
  BY <1>3
<1>5. QED  BY <1>1, <1>4 DEF OneRecord, Commit

LEMMA EvolutionAppends ==
  ASSUME Typed, NEW d \in Components[installed], EvolveRows(d)
  PROVE  \E operations \in Seq(Operations), families \in Catalogs :
           AppendEntry(Mint(operations, families))
<1>1. /\ memory \in Catalogs /\ rows \in Rows /\ installed \in DOMAIN Components
  BY DEF Typed, TypeOK
<1>2. d.table \in Tables /\ Identity(d) \in Identities
  BY <1>1, DescriptorFields
<1>3. memory[d.table] \in Identities /\ IsFiniteSet(Carried(d.table))
  BY <1>1, <1>2 DEF EvolveRows, Mismatched, Catalogs, Typed, CarriedFinite
<1>4. EvolutionOperations(d.table, memory[d.table], Identity(d)) \in Seq(Operations)
  BY <1>1, <1>2, <1>3, EvolutionOperationsType
<1>5. [memory EXCEPT ![d.table] = Identity(d)] \in Catalogs
  BY <1>1, <1>2 DEF Catalogs
<1>6. QED  BY <1>4, <1>5 DEF EvolveRows

LEMMA ChainedNext ==
  ASSUME Typed, Chained, [Next]_vars, "empty" \notin Handed
  PROVE  Chained'
<1>1. TypeOK /\ Process /\ StoreChained /\ ExportChained
  BY DEF Typed, Chained
<1>2. CASE UNCHANGED vars \/ UNCHANGED <<diskVars, exported>>
  <2>1. UNCHANGED <<log, head, marker, checkpoint, exported>>
    BY <1>2 DEF vars, diskVars, outerVars
  <2>2. QED  BY <1>1, <2>1, StoreChainedKept, ExportChainedKept DEF Chained
<1>3. CASE (\E n \in DOMAIN Components : Install(n)) \/ Open \/ Exit \/ Retry \/ Crash
  <2>1. UNCHANGED <<diskVars, exported>>
    BY <1>3 DEF Install, Open, Exit, Retry, Crash, Gone, Fault, outerVars
  <2>2. QED  BY <1>2, <2>1
<1>4. CASE \E d \in Components[installed] : Register(d)
  <2>1. PICK d \in Components[installed] : Register(d)
    BY <1>4
  <2>2. CASE EvolveRows(d)
    <3>1. PICK operations \in Seq(Operations), families \in Catalogs :
            AppendEntry(Mint(operations, families))
      BY <2>2, <2>1, EvolutionAppends
    <3>2. checkpoint' = checkpoint /\ exported' = exported
      BY <2>2 DEF EvolveRows, outerVars
    <3>3. QED  BY <1>1, <3>1, <3>2, AppendEntryChained, ExportChainedKept DEF Chained
  <2>3. CASE ~EvolveRows(d)
    <3>1. UNCHANGED <<log, head, marker, checkpoint, exported>>
      BY <1>1, <2>1, <2>3, RegisterSplits
         DEF RegisterExisting, CatalogAlone, Fault, diskVars, outerVars
    <3>2. QED  BY <1>1, <3>1, StoreChainedKept, ExportChainedKept DEF Chained
  <2>4. QED  BY <2>2, <2>3
<1>5. CASE Write
  <2>1. PICK operations \in Seq(Operations) : AppendEntry(Mint(operations, memory))
    BY <1>1, <1>5, WriteAppends
  <2>2. memory \in Catalogs
    BY <1>1 DEF TypeOK
  <2>3. checkpoint' = checkpoint /\ exported' = exported
    <3>1. \E t \in granted, kind \in {"Assert", "Mutate", "Retract"},
             k \in RecordKeys, payload \in Records \cup {Absent} :
            OneRecord(t, kind, k, payload)
      BY <1>1, <1>5, WriteIsOneRecord
    <3>2. QED  BY <3>1 DEF OneRecord, Commit
  <2>4. QED  BY <1>1, <2>1, <2>2, <2>3, AppendEntryChained, ExportChainedKept DEF Chained
<1>6. CASE Checkpoint \/ Tick \/ Maintain
  <2>1. exported' = exported
    BY <1>6 DEF Checkpoint, Tick, Maintain, MaintainWithinBudget, MaintainRefused,
                MaintainCheckpoint, MaintainFails, Compact, Fault, outerVars
  <2>2. \/ UNCHANGED <<log, head, marker, checkpoint>>
        \/ TakeCheckpoint
        \/ log' = Uncovered /\ UNCHANGED <<head, marker, checkpoint>>
    BY <1>6 DEF Checkpoint, Tick, Maintain, MaintainWithinBudget, MaintainRefused,
                MaintainCheckpoint, MaintainFails, Compact, diskVars
  <2>3. QED
    BY <1>1, <2>1, <2>2, StoreChainedKept, TakeCheckpointChained, CompactChained,
       ExportChainedKept DEF Chained
<1>7. CASE RebuildFromLog
  <2>1. UNCHANGED <<log, head, marker, checkpoint, exported>>
    BY <1>7 DEF RebuildFromLog, outerVars
  <2>2. QED  BY <1>1, <2>1, StoreChainedKept, ExportChainedKept DEF Chained
<1>8. CASE ExportCheckpoint \/ ExportSuffix
  <2>1. UNCHANGED <<log, head, marker, checkpoint>>
    BY <1>8 DEF ExportCheckpoint, ExportSuffix, diskVars
  <2>2. QED
    BY <1>1, <1>8, <2>1, StoreChainedKept, ExportCheckpointChained, ExportSuffixChained
       DEF Chained
<1>9. CASE Lose
  BY <1>1, <1>9, LoseChained, ExportChainedKept DEF Chained, Lose
<1>10. CASE Import
  BY <1>1, <1>10, ImportChained, ExportChainedKept DEF Chained, Import, outerVars
<1>11. QED
  BY <1>2, <1>3, <1>4, <1>5, <1>6, <1>7, <1>8, <1>9, <1>10 DEF Next

-----------------------------------------------------------------------------
(* The theorem about the chain *)

(* The latest checkpoint, the log and the chain head are always one history:  *)
(* the entries past the checkpoint verify from it and end at the head, over   *)
(* any evolutions, compactions, crashes, losses and restores.  An import of an *)
(* empty suffix is excepted: it writes no chain head (as the run Restored      *)
(* shows).                                                                    *)
THEOREM HistoryAlwaysFolds ==
  ASSUME "empty" \notin Handed
  PROVE  Spec => []HistoryFolds
<1>1. Init => Typed /\ Chained
  BY TypedInit, ChainedInit
<1>2. Typed /\ Chained /\ [Next]_vars => (Typed /\ Chained)'
  BY TypedNext, ChainedNext
<1>3. Typed /\ Chained => HistoryFolds
  BY UncoveredChained DEF Typed, Chained, HistoryFolds
<1>4. QED  BY <1>1, <1>2, <1>3, PTL DEF Spec

-----------------------------------------------------------------------------
(* What the theorems about the rows say of the releases *)

\* A family version is declared at one table, over all releases.
OneTablePerVersion ==
  \A m, n \in DOMAIN Components : \A d \in Components[m], e \in Components[n] :
    SharesFamily(Identity(d), Identity(e)) => d.table = e.table

\* A release evolves one family at most.
OneEvolution ==
  \A n \in DOMAIN Components : \A d, e \in Components[n] :
    d.priors # {} /\ e.priors # {} => d = e

(* The rows and the view *)

ViewOf(digest) == ApplyBodies(EmptyView, digest)

\* Some release declares the identity.
AtHome(identity) ==
  \E n \in DOMAIN Components : \E d \in Components[n] : identity = Identity(d)

HomeBody(body) ==
  \A i \in DOMAIN body.operations :
    AtHome(body.operations[i].identity) /\ WellFormed(body.operations[i])

HomeHistory(digest) == \A n \in DOMAIN digest : HomeBody(digest[n])

CatalogAtHome(families) ==
  \A t \in Tables : families[t] # Absent =>
    families[t].table = t /\ AtHome(families[t])

\* A row is in the shape the catalog names.
ShapesNamed(families, r) ==
  \A t \in Tables, k \in RecordKeys :
    r[t][k] # Absent => families[t] # Absent /\ r[t][k].schema = families[t].schema

\* The rows are what the view shows of the registered versions, and it shows
\* no other.
Shown(view, families, r) ==
  /\ \A t \in Tables : families[t] # Absent =>
       \A k \in RecordKeys : Lookup(view, ViewKey(families[t], k)) = r[t][k]
  /\ \A vk \in ViewKeys : Lookup(view, vk) # Absent =>
       \E t \in Tables :
         families[t] # Absent /\ Version(families[t]) = <<vk[1], vk[2]>>

\* A checkpoint stands for the history it commits to.
Stands(cp) ==
  /\ \A i \in cp.families : AtHome(i)
  /\ \A i, j \in cp.families : i.table = j.table => i = j
  /\ \A row \in cp.rows : /\ row.identity \in cp.families
                          /\ row.payload.schema = row.identity.schema
  /\ \A vk \in ViewKeys :
       Lookup(ViewOfRows(cp.rows), vk) = Lookup(ViewOf(cp.digest), vk)

\* An evolution reached the disk, its maintenance failed, and memory was put
\* back to the prior shape.
Stale(t) ==
  /\ t \in Declared \ granted
  /\ Descriptor(t).priors # {}
  /\ memory[t] # Absent /\ memory[t].schema # Descriptor(t).schema
  /\ catalog[t] = Identity(Descriptor(t))
  /\ Carried(t) # {}

MemoryTold ==
  /\ CatalogAtHome(memory)
  /\ pc # "closed" => \A t \in Tables : memory[t] # catalog[t] => Stale(t)
  /\ pending # NoPending =>
       /\ Descriptor(pending.table).priors # {}
       /\ pending.previous.table = pending.table /\ AtHome(pending.previous)
       /\ pending.previous.schema # Descriptor(pending.table).schema
       /\ Carried(pending.table) # {}

RowsTold ==
  /\ CatalogAtHome(catalog)
  /\ ShapesNamed(catalog, rows)
  /\ Shown(ViewOf(head), catalog, rows)

HistoryTold ==
  /\ HomeHistory(head) /\ HomeHistory(ExportedHead)
  /\ Stands(checkpoint) /\ Stands(exported.checkpoint)

\* The rows are what the history says, in the shapes the catalog names.
Told == MemoryTold /\ RowsTold /\ HistoryTold

-----------------------------------------------------------------------------
(* What a fold shows *)

LEMMA EmptyViewType == EmptyView \in Views /\ \A vk : Lookup(EmptyView, vk) = Absent
<1>1. DOMAIN <<>> = {}
  OBVIOUS
<1>2. IsFiniteSet({})
  BY FS_EmptySet
<1>3. <<>> \in [{} -> Records \cup {Absent}] /\ <<>> \in [{} -> Tables]
  BY <1>1
<1>4. [payloads |-> <<>>, tables |-> <<>>] \in Views
  BY <1>2, <1>3, ViewMade
<1>5. QED  BY <1>1, <1>4 DEF EmptyView, Lookup

LEMMA LookupType ==
  ASSUME NEW view \in Views, NEW vk
  PROVE  Lookup(view, vk) \in Records \cup {Absent}
  BY ViewFields DEF Lookup

(* What a key shows after some operations depends on what it showed before.  *)
LEMMA FoldSame ==
  ASSUME NEW one \in Views, NEW other \in Views, NEW vk,
         Lookup(one, vk) = Lookup(other, vk), NEW operations \in Seq(Operations)
  PROVE  Lookup(ApplyOperations(one, operations), vk)
           = Lookup(ApplyOperations(other, operations), vk)
<1>1. PICK size \in Nat : size = Len(operations)
  BY LenProperties
<1>2. \A n \in 1 .. size : operations[n] \in Operations
  BY <1>1, ElementOfSeq
<1> DEFINE S == {n \in Nat : n <= size =>
                   Lookup(FoldTo(one, operations, n), vk)
                     = Lookup(FoldTo(other, operations, n), vk)}
<1>3. 0 \in S
  BY <1>2, FoldToSteps
<1>4. ASSUME NEW n \in Nat, n < size, n \in S
      PROVE  n + 1 \in S
  <2>1. n + 1 \in 1 .. size /\ n \in 0 .. size /\ (n + 1) - 1 = n
    BY <1>4
  <2>2. /\ FoldTo(one, operations, n + 1)
             = ApplyOperation(FoldTo(one, operations, n), operations[n + 1])
        /\ FoldTo(other, operations, n + 1)
             = ApplyOperation(FoldTo(other, operations, n), operations[n + 1])
        /\ FoldTo(one, operations, n) \in Views /\ FoldTo(other, operations, n) \in Views
    <3>1. /\ FoldTo(one, operations, n + 1)
               = ApplyOperation(FoldTo(one, operations, (n + 1) - 1), operations[n + 1])
          /\ FoldTo(other, operations, n + 1)
               = ApplyOperation(FoldTo(other, operations, (n + 1) - 1), operations[n + 1])
          /\ FoldTo(one, operations, n) \in Views /\ FoldTo(other, operations, n) \in Views
      BY <1>2, <2>1, FoldToSteps
    <3>2. QED  BY <2>1, <3>1
  <2>3. Lookup(FoldTo(one, operations, n + 1), vk)
          = Lookup(FoldTo(other, operations, n + 1), vk)
    <3>1. Lookup(FoldTo(one, operations, n), vk) = Lookup(FoldTo(other, operations, n), vk)
      BY <1>4
    <3>2. QED  BY <1>2, <2>1, <2>2, <3>1, ApplyOperationType
  <2>4. QED  BY <2>3
<1>5. size \in S
  <2> HIDE DEF S
  <2>1. \A n \in 0 .. size : n \in S
    BY ONLY <1>3, <1>4, size \in Nat, UpTo
  <2>2. QED  BY <2>1
<1>6. QED  BY <1>1, <1>5, ApplyOperationsIsFoldTo

(* What the views of a set have in common, the folds from them have too. *)
LEMMA FoldStays ==
  ASSUME NEW W \in SUBSET Views, NEW view \in W, NEW operations \in Seq(Operations),
         \A v \in W : \A i \in 1 .. Len(operations) : ApplyOperation(v, operations[i]) \in W
  PROVE  ApplyOperations(view, operations) \in W
<1>1. PICK size \in Nat : size = Len(operations)
  BY LenProperties
<1>2. /\ \A n \in 1 .. size : operations[n] \in Operations
      /\ \A v \in W : \A i \in 1 .. size : ApplyOperation(v, operations[i]) \in W
      /\ view \in Views
  BY <1>1, ElementOfSeq
<1> DEFINE S == {n \in Nat : n <= size => FoldTo(view, operations, n) \in W}
<1>3. 0 \in S
  BY <1>2, FoldToSteps
<1>4. ASSUME NEW n \in Nat, n < size, n \in S
      PROVE  n + 1 \in S
  <2>1. n + 1 \in 1 .. size /\ (n + 1) - 1 = n
    BY <1>4
  <2>2. FoldTo(view, operations, n + 1)
          = ApplyOperation(FoldTo(view, operations, (n + 1) - 1), operations[n + 1])
    BY <1>2, <2>1, FoldToSteps
  <2>3. QED  BY <1>2, <1>4, <2>1, <2>2
<1>5. size \in S
  <2> HIDE DEF S
  <2>1. \A n \in 0 .. size : n \in S
    BY ONLY <1>3, <1>4, size \in Nat, UpTo
  <2>2. QED  BY <2>1
<1>6. QED  BY <1>1, <1>5, ApplyOperationsIsFoldTo

LEMMA FoldBodiesStays ==
  ASSUME NEW W \in SUBSET Views, NEW view \in W, NEW bodies \in Seq(Bodies),
         \A v \in W : \A n \in 1 .. Len(bodies) :
           \A i \in 1 .. Len(bodies[n].operations) :
             ApplyOperation(v, bodies[n].operations[i]) \in W
  PROVE  ApplyBodies(view, bodies) \in W
<1>1. PICK size \in Nat : size = Len(bodies)
  BY LenProperties
<1>2. ASSUME NEW n \in 1 .. size
      PROVE  /\ bodies[n].operations \in Seq(Operations)
             /\ \A v \in W : ApplyOperations(v, bodies[n].operations) \in W
  <2>1. bodies[n] \in Bodies
    BY <1>1, <1>2, ElementOfSeq
  <2>2. bodies[n].operations \in Seq(Operations)
    BY <2>1 DEF Bodies
  <2>3. \A v \in W : \A i \in 1 .. Len(bodies[n].operations) :
          ApplyOperation(v, bodies[n].operations[i]) \in W
    BY <1>1, <1>2
  <2>4. QED  BY <2>2, <2>3, FoldStays
<1> DEFINE S == {n \in Nat : n <= size => FoldBodiesTo(view, bodies, n) \in W}
<1>3. 0 \in S
  <2>1. view \in Views /\ Foldable(bodies, size)
    BY <1>2 DEF Foldable
  <2>2. QED  BY <2>1, FoldBodiesToSteps
<1>4. ASSUME NEW n \in Nat, n < size, n \in S
      PROVE  n + 1 \in S
  <2>1. n + 1 \in 1 .. size /\ (n + 1) - 1 = n
    BY <1>4
  <2>2. FoldBodiesTo(view, bodies, n + 1)
          = ApplyOperations(FoldBodiesTo(view, bodies, n), bodies[n + 1].operations)
    <3>1. view \in Views /\ Foldable(bodies, size)
      BY <1>2 DEF Foldable
    <3>2. QED  BY ONLY <2>1, <3>1, size \in Nat, n \in Nat, FoldBodiesStep
  <2>3. QED  BY <1>2, <1>4, <2>1, <2>2
<1>5. size \in S
  <2> HIDE DEF S
  <2>1. \A n \in 0 .. size : n \in S
    BY ONLY <1>3, <1>4, size \in Nat, UpTo
  <2>2. QED  BY <2>1
<1>6. QED  BY <1>1, <1>5, ApplyBodiesIsFoldBodiesTo

(* A key that no operation touches shows what it did, and one that some touch *)
(* shows what the last of these left.                                         *)
LEMMA FoldUntouched ==
  ASSUME NEW view \in Views, NEW operations \in Seq(Operations), NEW vk,
         \A i \in 1 .. Len(operations) : ~OnKey(operations[i], vk)
  PROVE  Lookup(ApplyOperations(view, operations), vk) = Lookup(view, vk)
<1> DEFINE W == {v \in Views : Lookup(v, vk) = Lookup(view, vk)}
<1>1. ASSUME NEW v \in W, NEW i \in 1 .. Len(operations)
      PROVE  ApplyOperation(v, operations[i]) \in W
  <2>1. operations[i] \in Operations /\ ~OnKey(operations[i], vk)
    BY ElementOfSeq
  <2>2. QED  BY <2>1, ApplyOperationType
<1>2. W \in SUBSET Views /\ view \in W
  OBVIOUS
<1>3. ApplyOperations(view, operations) \in W
  <2> HIDE DEF W
  <2>1. QED  BY <1>1, <1>2, FoldStays
<1>4. QED  BY <1>3

LEMMA FoldLast ==
  ASSUME NEW view \in Views, NEW operations \in Seq(Operations), NEW vk,
         NEW j \in 1 .. Len(operations), OnKey(operations[j], vk),
         \A i \in 1 .. Len(operations) : i > j => ~OnKey(operations[i], vk)
  PROVE  Lookup(ApplyOperations(view, operations), vk) = operations[j].payload
<1>1. PICK size \in Nat : size = Len(operations)
  BY LenProperties
<1>2. /\ \A n \in 1 .. size : operations[n] \in Operations
      /\ j \in 1 .. size
      /\ \A i \in 1 .. size : i > j => ~OnKey(operations[i], vk)
  BY <1>1, ElementOfSeq
<1> DEFINE S == {n \in Nat : n <= size /\ n >= j =>
                   Lookup(FoldTo(view, operations, n), vk) = operations[j].payload}
<1>3. 0 \in S
  BY <1>2
<1>4. ASSUME NEW n \in Nat, n < size, n \in S
      PROVE  n + 1 \in S
  <2>1. n + 1 \in 1 .. size /\ (n + 1) - 1 = n /\ n \in 0 .. size
    BY <1>4
  <2>2. /\ FoldTo(view, operations, n + 1)
             = ApplyOperation(FoldTo(view, operations, (n + 1) - 1), operations[n + 1])
        /\ FoldTo(view, operations, n) \in Views
    BY <1>2, <2>1, FoldToSteps
  <2>3. /\ OnKey(operations[n + 1], vk) =>
             Lookup(FoldTo(view, operations, n + 1), vk) = operations[n + 1].payload
        /\ ~OnKey(operations[n + 1], vk) =>
             Lookup(FoldTo(view, operations, n + 1), vk)
               = Lookup(FoldTo(view, operations, n), vk)
    <3>1. PICK before \in Views : before = FoldTo(view, operations, n)
      BY <2>2
    <3>2. PICK operation \in Operations : operation = operations[n + 1]
      BY <1>2, <2>1
    <3>3. FoldTo(view, operations, n + 1) = ApplyOperation(before, operation)
      BY <2>1, <2>2, <3>1, <3>2
    <3>4. Lookup(ApplyOperation(before, operation), vk) =
            IF OnKey(operation, vk) THEN operation.payload ELSE Lookup(before, vk)
      BY ONLY ApplyOperationType
    <3>5. QED  BY <3>1, <3>2, <3>3, <3>4
  <2>4. CASE n + 1 = j
    BY <2>3, <2>4
  <2>5. CASE n + 1 > j
    <3>1. n >= j /\ n <= size
      BY <1>2, <2>5, <1>4
    <3>2. ~OnKey(operations[n + 1], vk)
      BY <1>2, <2>1, <2>5
    <3>3. QED  BY <1>4, <2>3, <3>1, <3>2
  <2>6. CASE n + 1 < j
    BY <1>2, <2>6
  <2>7. QED  BY <1>2, <2>4, <2>5, <2>6
<1>5. size \in S
  <2> HIDE DEF S
  <2>1. \A n \in 0 .. size : n \in S
    BY ONLY <1>3, <1>4, size \in Nat, UpTo
  <2>2. QED  BY <2>1
<1>6. Lookup(FoldTo(view, operations, size), vk) = operations[j].payload
  BY <1>2, <1>5
<1>7. QED  BY <1>1, <1>6, ApplyOperationsIsFoldTo

(* Bodies with the same operations fold the same. *)
LEMMA FoldBodiesAgree ==
  ASSUME NEW view \in Views, NEW size \in Nat, NEW one, NEW other,
         \A n \in 1 .. size : /\ one[n] = other[n]
                              /\ one[n].operations \in Seq(Operations)
  PROVE  FoldBodiesTo(view, one, size) = FoldBodiesTo(view, other, size)
<1> DEFINE S == {n \in Nat : n <= size =>
                   FoldBodiesTo(view, one, n) = FoldBodiesTo(view, other, n)}
<1>1. Foldable(one, size) /\ Foldable(other, size)
  BY DEF Foldable
<1>2. 0 \in S
  BY <1>1, FoldBodiesToSteps
<1>3. ASSUME NEW n \in Nat, n < size, n \in S
      PROVE  n + 1 \in S
  <2>1. n + 1 \in 1 .. size
    BY <1>3
  <2>2. /\ FoldBodiesTo(view, one, n + 1)
             = ApplyOperations(FoldBodiesTo(view, one, n), one[n + 1].operations)
        /\ FoldBodiesTo(view, other, n + 1)
             = ApplyOperations(FoldBodiesTo(view, other, n), other[n + 1].operations)
    BY <1>1, <2>1, FoldBodiesStep
  <2>3. QED  BY <1>3, <2>1, <2>2
<1>4. size \in S
  <2> HIDE DEF S
  <2>1. \A n \in 0 .. size : n \in S
    BY ONLY <1>2, <1>3, size \in Nat, UpTo
  <2>2. QED  BY <2>1
<1>5. QED  BY <1>4

(* What a digest shows. *)
LEMMA ViewOfFacts ==
  ASSUME NEW digest \in Digests
  PROVE  /\ ViewOf(digest) \in Views
         /\ \A n \in 0 .. Len(digest) :
              ViewOf(DigestAt(digest, n)) = FoldBodiesTo(EmptyView, digest, n)
         /\ \A body \in Bodies :
              ViewOf(Append(digest, body)) = ApplyOperations(ViewOf(digest), body.operations)
<1>1. ViewOf(digest) \in Views
  BY EmptyViewType, ApplyBodiesType DEF ViewOf, Digests
<1>2. ASSUME NEW size \in Nat, size = Len(digest)
      PROVE  \A n \in 1 .. size : digest[n] \in Bodies /\ digest[n].operations \in Seq(Operations)
  <2>1. \A n \in 1 .. size : digest[n] \in Bodies
    BY <1>2, ElementOfSeq DEF Digests
  <2>2. QED  BY <2>1 DEF Bodies
<1>3. PICK size \in Nat : size = Len(digest)
  BY LenProperties DEF Digests
<1>4. ASSUME NEW n \in 0 .. size
      PROVE  ViewOf(DigestAt(digest, n)) = FoldBodiesTo(EmptyView, digest, n)
  <2>1. PICK shorter \in Digests :
          /\ shorter = DigestAt(digest, n) /\ Len(shorter) = n
          /\ \A i \in 1 .. n : shorter[i] = digest[i]
    BY <1>3, PrefixFacts
  <2>2. n \in Nat /\ \A i \in 1 .. n : shorter[i] = digest[i] /\ i \in 1 .. size
    BY <1>3, <2>1
  <2>3. \A i \in 1 .. n : shorter[i].operations \in Seq(Operations)
    BY <1>2, <1>3, <2>2
  <2>4. FoldBodiesTo(EmptyView, shorter, n) = FoldBodiesTo(EmptyView, digest, n)
    BY <2>2, <2>3, EmptyViewType, FoldBodiesAgree
  <2>5. QED  BY <2>1, <2>4, ApplyBodiesIsFoldBodiesTo DEF ViewOf
<1>5. ASSUME NEW body \in Bodies
      PROVE  ViewOf(Append(digest, body)) = ApplyOperations(ViewOf(digest), body.operations)
  <2>1. PICK longer \in Digests :
          /\ longer = Append(digest, body) /\ Len(longer) = size + 1
          /\ \A n \in 1 .. size : longer[n] = digest[n]
          /\ longer[size + 1] = body
    BY <1>3, AppendDigest
  <2>2. body.operations \in Seq(Operations)
    BY DEF Bodies
  <2>3. \A n \in 1 .. size + 1 : longer[n].operations \in Seq(Operations)
    BY <1>2, <1>3, <2>1, <2>2
  <2>4. PICK next \in Nat : next = size + 1 /\ next \in 1 .. next /\ next - 1 = size
    OBVIOUS
  <2>5. FoldBodiesTo(EmptyView, longer, next)
          = ApplyOperations(FoldBodiesTo(EmptyView, longer, size), longer[next].operations)
    <3>1. Foldable(longer, next)
      BY <2>3, <2>4 DEF Foldable
    <3>2. QED  BY ONLY <2>4, <3>1, size \in Nat, EmptyViewType, FoldBodiesStep
  <2>6. FoldBodiesTo(EmptyView, longer, size) = FoldBodiesTo(EmptyView, digest, size)
    <3>1. \A n \in 1 .. size :
            longer[n] = digest[n] /\ longer[n].operations \in Seq(Operations)
      BY <1>2, <1>3, <2>1
    <3>2. QED  BY ONLY <3>1, size \in Nat, EmptyViewType, FoldBodiesAgree
  <2>7. ViewOf(longer) = FoldBodiesTo(EmptyView, longer, next)
        /\ ViewOf(digest) = FoldBodiesTo(EmptyView, digest, size)
    BY <1>3, <2>1, <2>4, ApplyBodiesIsFoldBodiesTo DEF ViewOf
  <2>8. QED  BY <2>1, <2>4, <2>5, <2>6, <2>7
<1>6. QED  BY <1>1, <1>3, <1>4, <1>5

(* Entries that begin right past a point of their history, folded from what   *)
(* it showed there, show what the history shows.                              *)
LEMMA FoldsTheHistory ==
  ASSUME NEW entries \in Seq(Entries), NEW digest \in Digests, NEW earlier \in Digests,
         Linked(entries, digest), Extends(digest, earlier),
         Before(entries, digest) = Len(earlier),
         NEW view \in Views, NEW vk, Lookup(view, vk) = Lookup(ViewOf(earlier), vk)
  PROVE  Lookup(ApplyBodies(view, BodiesOf(entries)), vk) = Lookup(ViewOf(digest), vk)
<1>1. PICK b \in Nat, N \in Nat, H \in Nat :
        b = Len(earlier) /\ N = Len(entries) /\ H = Len(digest) /\ b + N = H
  <2>1. Len(earlier) \in Nat /\ Len(entries) \in Nat /\ Len(digest) \in Nat
    BY LenProperties DEF Digests
  <2>2. Len(earlier) + Len(entries) = Len(digest)
    BY <2>1 DEF Before
  <2>3. QED  BY <2>1, <2>2
<1>2. PICK bodies \in Seq(Bodies) :
        /\ bodies = BodiesOf(entries) /\ Len(bodies) = N
        /\ \A n \in 1 .. N : bodies[n] = digest[b + n]
  <2>1. /\ BodiesOf(entries) \in Seq(Bodies) /\ Len(BodiesOf(entries)) = N
        /\ \A n \in 1 .. N : BodiesOf(entries)[n] = entries[n].body
    BY <1>1, BodiesOfType
  <2>2. \A n \in 1 .. N : n \in DOMAIN entries
    BY <1>1, LenProperties
  <2>3. \A n \in 1 .. N : entries[n].body = digest[b + n]
    BY <1>1, <2>2 DEF Linked
  <2>4. QED  BY <2>1, <2>3
<1>3. \A n \in 1 .. H : digest[n].operations \in Seq(Operations)
  <2>1. \A n \in 1 .. H : digest[n] \in Bodies
    BY <1>1, ElementOfSeq DEF Digests
  <2>2. QED  BY <2>1 DEF Bodies
<1>4. Foldable(digest, H) /\ Foldable(bodies, N)
  <2>1. \A n \in 1 .. N : b + n \in 1 .. H
    BY <1>1
  <2>2. QED  BY <1>2, <1>3, <2>1 DEF Foldable
<1> DEFINE S == {n \in Nat : n <= N =>
                   Lookup(FoldBodiesTo(view, bodies, n), vk)
                     = Lookup(FoldBodiesTo(EmptyView, digest, b + n), vk)}
<1>5. 0 \in S
  <2>1. FoldBodiesTo(view, bodies, 0) = view
    BY <1>4, FoldBodiesToSteps
  <2>2. b \in 0 .. Len(digest) /\ b + 0 = b
    BY <1>1
  <2>3. FoldBodiesTo(EmptyView, digest, b) = ViewOf(earlier)
    BY <1>1, <2>2, ViewOfFacts DEF Extends
  <2>4. QED  BY <2>1, <2>2, <2>3
<1>6. ASSUME NEW n \in Nat, n < N, n \in S
      PROVE  n + 1 \in S
  <2>1. /\ n + 1 \in 1 .. N /\ n \in 0 .. N
        /\ b + n \in Nat /\ b + (n + 1) \in 1 .. H /\ b + (n + 1) = (b + n) + 1
        /\ b + n \in 0 .. H
    BY <1>1, <1>6
  <2>2. FoldBodiesTo(view, bodies, n + 1)
          = ApplyOperations(FoldBodiesTo(view, bodies, n), bodies[n + 1].operations)
    BY <1>4, <2>1, FoldBodiesStep
  <2>3. FoldBodiesTo(EmptyView, digest, b + (n + 1))
          = ApplyOperations(FoldBodiesTo(EmptyView, digest, b + n),
                            digest[b + (n + 1)].operations)
    BY <1>4, <2>1, EmptyViewType, FoldBodiesStep
  <2>4. /\ FoldBodiesTo(view, bodies, n) \in Views
        /\ FoldBodiesTo(EmptyView, digest, b + n) \in Views
    BY <1>4, <2>1, EmptyViewType, FoldBodiesToSteps
  <2>5. /\ digest[b + (n + 1)] = bodies[n + 1]
        /\ bodies[n + 1].operations \in Seq(Operations)
    BY <1>2, <1>4, <2>1 DEF Foldable
  <2>6. Lookup(FoldBodiesTo(view, bodies, n), vk)
          = Lookup(FoldBodiesTo(EmptyView, digest, b + n), vk)
    BY <1>6
  <2>7. Lookup(FoldBodiesTo(view, bodies, n + 1), vk)
          = Lookup(FoldBodiesTo(EmptyView, digest, b + (n + 1)), vk)
    BY <2>2, <2>3, <2>4, <2>5, <2>6, FoldSame
  <2>8. QED  BY <2>7
<1>7. N \in S
  <2> HIDE DEF S
  <2>1. \A n \in 0 .. N : n \in S
    BY ONLY <1>5, <1>6, N \in Nat, UpTo
  <2>2. QED  BY <2>1
<1>8. Lookup(FoldBodiesTo(view, bodies, N), vk) = Lookup(FoldBodiesTo(EmptyView, digest, H), vk)
  BY <1>1, <1>7
<1>9. QED  BY <1>1, <1>2, <1>8, ApplyBodiesIsFoldBodiesTo DEF ViewOf

(* The rows of a view load to what it shows. *)
LEMMA RowsOfShow ==
  ASSUME NEW view \in Views
  PROVE  \A vk \in ViewKeys : Lookup(ViewOfRows(RowsOf(view)), vk) = Lookup(view, vk)
<1> DEFINE row(vk) == [identity |-> Resolve(view, vk), key |-> vk[3],
                       payload |-> view.payloads[vk]]
<1>1. /\ RowsOf(view) \in SUBSET ViewRows /\ IsFiniteSet(RowsOf(view))
      /\ RowsOf(view) = {row(vk) : vk \in KeptKeys(view)}
  BY RowsOfType DEF RowsOf
<1>2. \A vk \in KeptKeys(view) : vk \in ViewKeys /\ view.payloads[vk] # Absent
  BY ViewFields DEF KeptKeys
<1>3. \A vk \in ViewKeys : ViewKey(row(vk).identity, row(vk).key) = vk
  BY DEF ViewKeys, ViewKey, Resolve
<1>4. PICK loaded \in Views :
        /\ loaded = ViewOfRows(RowsOf(view))
        /\ DOMAIN loaded.payloads = {ViewKey(r.identity, r.key) : r \in RowsOf(view)}
        /\ \A vk \in DOMAIN loaded.payloads : \E r \in RowsOf(view) :
             ViewKey(r.identity, r.key) = vk /\ loaded.payloads[vk] = r.payload
  BY <1>1, ViewOfRowsType
<1>5. ASSUME NEW vk \in DOMAIN loaded.payloads
      PROVE  vk \in KeptKeys(view) /\ loaded.payloads[vk] = view.payloads[vk]
  <2>1. PICK r \in RowsOf(view) : ViewKey(r.identity, r.key) = vk /\ loaded.payloads[vk] = r.payload
    BY <1>4
  <2>2. PICK wk \in KeptKeys(view) : r = row(wk)
    BY <1>1
  <2>3. wk = vk
    BY <1>2, <1>3, <2>1, <2>2
  <2>4. QED  BY <2>1, <2>2, <2>3
<1>6. \A vk \in KeptKeys(view) : vk \in DOMAIN loaded.payloads
  <2>1. ASSUME NEW vk \in KeptKeys(view)
        PROVE  vk \in DOMAIN loaded.payloads
    <3>1. row(vk) \in RowsOf(view) /\ ViewKey(row(vk).identity, row(vk).key) = vk
      BY <1>1, <1>2, <1>3
    <3> HIDE DEF row
    <3>2. QED  BY <1>4, <3>1
  <2>2. QED  BY <2>1
<1>7. ASSUME NEW vk \in ViewKeys
      PROVE  Lookup(loaded, vk) = Lookup(view, vk)
  <2>1. CASE vk \in KeptKeys(view)
    BY <1>5, <1>6, <2>1 DEF Lookup, KeptKeys
  <2>2. CASE vk \notin KeptKeys(view)
    BY <1>5, <2>2 DEF Lookup, KeptKeys
  <2>3. QED  BY <2>1, <2>2
<1>8. QED  BY <1>4, <1>7

-----------------------------------------------------------------------------
(* Identities at their tables *)

LEMMA HomeIsUnique ==
  ASSUME OneTablePerVersion, NEW one, NEW other, AtHome(one), AtHome(other),
         Version(one) = Version(other)
  PROVE  one = other
<1>1. PICK m \in DOMAIN Components : \E d \in Components[m] : one = Identity(d)
  BY DEF AtHome
<1>2. PICK n \in DOMAIN Components : \E e \in Components[n] : other = Identity(e)
  BY DEF AtHome
<1>3. PICK d \in Components[m] : one = Identity(d)
  BY <1>1
<1>4. PICK e \in Components[n] : other = Identity(e)
  BY <1>2
<1>5. d.table = e.table
  BY <1>3, <1>4 DEF OneTablePerVersion, SharesFamily
<1>6. d.family = e.family /\ d.schema = e.schema
  BY <1>3, <1>4 DEF Version, Identity
<1>7. QED  BY <1>3, <1>4, <1>5, <1>6 DEF Identity

LEMMA HomeType ==
  ASSUME NEW identity, AtHome(identity)
  PROVE  identity \in Identities /\ identity # Absent
<1>1. PICK n \in DOMAIN Components : \E d \in Components[n] : identity = Identity(d)
  BY DEF AtHome
<1>2. PICK d \in Components[n] : identity = Identity(d)
  BY <1>1
<1>3. d \in Descriptors
  <2>1. Components[n] \in SUBSET Descriptors
    BY ComponentAssumption, ElementOfSeq, LenProperties
  <2>2. QED  BY <2>1
<1>4. QED  BY <1>2, <1>3, FamilyAssumption DEF Identity, Identities, Descriptors

\* Views that show, of some families only, rows in the shape of their version,
\* and know the table of each version.
HomeViews(families) ==
  {view \in Views :
     /\ \A version \in DOMAIN view.tables :
          AtHome([family |-> version[1], schema |-> version[2],
                  table |-> view.tables[version]])
     /\ \A vk \in ViewKeys : Lookup(view, vk) # Absent =>
          /\ Lookup(view, vk).schema = vk[2]
          /\ \E i \in families : Version(i) = <<vk[1], vk[2]>>}

LEMMA ApplyHome ==
  ASSUME NEW families, NEW view \in HomeViews(families), NEW operation \in Operations,
         AtHome(operation.identity), WellFormed(operation), operation.identity \in families
  PROVE  ApplyOperation(view, operation) \in HomeViews(families)
<1> DEFINE after == ApplyOperation(view, operation)
<1>1. /\ view \in Views /\ after \in Views
      /\ \A vk : Lookup(after, vk) =
           IF OnKey(operation, vk) THEN operation.payload ELSE Lookup(view, vk)
      /\ \A version \in DOMAIN after.tables :
           \/ /\ version \in DOMAIN view.tables
              /\ after.tables[version] = view.tables[version]
           \/ /\ version = Version(operation.identity)
              /\ after.tables[version] = operation.identity.table
  BY ApplyOperationType DEF HomeViews
<1>2. operation.identity \in Identities
  BY OperationFields
<1> HIDE DEF after
<1>3. ASSUME NEW version \in DOMAIN after.tables
      PROVE  AtHome([family |-> version[1], schema |-> version[2],
                     table |-> after.tables[version]])
  <2>1. CASE version \in DOMAIN view.tables /\ after.tables[version] = view.tables[version]
    BY <2>1 DEF HomeViews
  <2>2. CASE /\ version = Version(operation.identity)
             /\ after.tables[version] = operation.identity.table
    <3>1. [family |-> version[1], schema |-> version[2], table |-> after.tables[version]]
            = operation.identity
      BY <1>2, <2>2 DEF Version, Identities
    <3>2. QED  BY <3>1
  <2>3. QED  BY <1>1, <2>1, <2>2
<1>4. ASSUME NEW vk \in ViewKeys, Lookup(after, vk) # Absent
      PROVE  /\ Lookup(after, vk).schema = vk[2]
             /\ \E i \in families : Version(i) = <<vk[1], vk[2]>>
  <2>1. CASE OnKey(operation, vk)
    <3>1. Lookup(after, vk) = operation.payload /\ operation.payload # Absent
      BY <1>1, <1>4, <2>1
    <3>2. operation.payload.schema = operation.identity.schema
      BY <3>1 DEF WellFormed
    <3>3. vk[1] = operation.identity.family /\ vk[2] = operation.identity.schema
      BY <2>1 DEF OnKey, ViewKey
    <3>4. Version(operation.identity) = <<vk[1], vk[2]>>
      BY <3>3 DEF Version
    <3>5. QED  BY <3>1, <3>2, <3>3, <3>4
  <2>2. CASE ~OnKey(operation, vk)
    BY <1>1, <1>4, <2>2 DEF HomeViews
  <2>3. QED  BY <2>1, <2>2
<1>5. after \in HomeViews(families)
  BY <1>1, <1>3, <1>4 DEF HomeViews
<1>6. QED  BY <1>5 DEF after

LEMMA FoldHome ==
  ASSUME NEW families, NEW source \in SUBSET ViewRows, IsFiniteSet(source),
         NEW entries \in Seq(Entries),
         \A row \in source : /\ row.identity \in families /\ AtHome(row.identity)
                             /\ row.payload.schema = row.identity.schema,
         \A n \in DOMAIN entries :
           /\ HomeBody(entries[n].body)
           /\ \A i \in DOMAIN entries[n].body.operations :
                entries[n].body.operations[i].identity \in families
  PROVE  Fold(source, entries) \in HomeViews(families)
<1> DEFINE start == ViewOfRows(source)
<1>1. start \in HomeViews(families)
  <2>1. /\ start \in Views
        /\ \A vk \in DOMAIN start.payloads : \E row \in source :
             ViewKey(row.identity, row.key) = vk /\ start.payloads[vk] = row.payload
        /\ \A version \in DOMAIN start.tables : \E row \in source :
             Version(row.identity) = version /\ start.tables[version] = row.identity.table
    BY ViewOfRowsType
  <2> HIDE DEF start
  <2>2. ASSUME NEW version \in DOMAIN start.tables
        PROVE  AtHome([family |-> version[1], schema |-> version[2],
                       table |-> start.tables[version]])
    <3>1. PICK row \in source :
            Version(row.identity) = version /\ start.tables[version] = row.identity.table
      BY <2>1
    <3>2. row.identity \in Identities
      BY DEF ViewRows
    <3>3. [family |-> version[1], schema |-> version[2], table |-> start.tables[version]]
            = row.identity
      BY <3>1, <3>2 DEF Version, Identities
    <3>4. QED  BY <3>3
  <2>3. ASSUME NEW vk \in ViewKeys, Lookup(start, vk) # Absent
        PROVE  /\ Lookup(start, vk).schema = vk[2]
               /\ \E i \in families : Version(i) = <<vk[1], vk[2]>>
    <3>1. vk \in DOMAIN start.payloads /\ Lookup(start, vk) = start.payloads[vk]
      BY <2>3 DEF Lookup
    <3>2. PICK row \in source : ViewKey(row.identity, row.key) = vk /\ start.payloads[vk] = row.payload
      BY <2>1, <3>1
    <3>3. vk[2] = row.identity.schema /\ Version(row.identity) = <<vk[1], vk[2]>>
      BY <3>2 DEF ViewKey, Version
    <3>4. QED  BY <3>1, <3>2, <3>3
  <2>4. QED  BY <2>1, <2>2, <2>3 DEF HomeViews
<1> HIDE DEF start
<1>2. PICK bodies \in Seq(Bodies) :
        /\ bodies = BodiesOf(entries) /\ Len(bodies) = Len(entries)
        /\ \A n \in 1 .. Len(entries) : bodies[n] = entries[n].body
  BY BodiesOfType
<1>3. ASSUME NEW v \in HomeViews(families), NEW n \in 1 .. Len(bodies),
             NEW i \in 1 .. Len(bodies[n].operations)
      PROVE  ApplyOperation(v, bodies[n].operations[i]) \in HomeViews(families)
  <2>1. bodies[n].operations \in Seq(Operations) /\ n \in DOMAIN entries
        /\ bodies[n] = entries[n].body
    <3>1. bodies[n] \in Bodies /\ n \in 1 .. Len(entries)
      BY <1>2, ElementOfSeq
    <3>2. QED  BY <1>2, <3>1, LenProperties DEF Bodies
  <2>2. i \in DOMAIN bodies[n].operations /\ bodies[n].operations[i] \in Operations
    BY <2>1, ElementOfSeq, LenProperties
  <2>3. /\ AtHome(bodies[n].operations[i].identity) /\ WellFormed(bodies[n].operations[i])
        /\ bodies[n].operations[i].identity \in families
    BY <2>1, <2>2 DEF HomeBody
  <2>4. QED  BY <2>2, <2>3, ApplyHome
<1>4. HomeViews(families) \in SUBSET Views
  BY DEF HomeViews
<1>5. ApplyBodies(start, bodies) \in HomeViews(families)
  BY <1>1, <1>3, <1>4, FoldBodiesStays
<1>6. QED  BY <1>2, <1>5 DEF Fold, start

(* What a view of registered versions leaves when it is written over tables  *)
(* whose rows it shows.                                                       *)
LEMMA MaterializeShown ==
  ASSUME OneTablePerVersion, NEW any, NEW view \in HomeViews(any),
         NEW families \in Catalogs, CatalogAtHome(families), NEW r \in Rows,
         \A vk \in ViewKeys : Lookup(view, vk) # Absent =>
           \E t \in Tables :
             families[t] # Absent /\ Version(families[t]) = <<vk[1], vk[2]>>,
         \A t \in Tables, k \in RecordKeys : r[t][k] # Absent =>
           families[t] # Absent /\ Lookup(view, ViewKey(families[t], k)) # Absent,
         NEW t \in Tables, NEW k \in RecordKeys
  PROVE  Materialize(view, r)[t][k] =
           IF families[t] # Absent THEN Lookup(view, ViewKey(families[t], k)) ELSE Absent
<1> DEFINE kept == At(view, KeptKeys(view), t, k)
           cleared == At(view, ClearedKeys(view), t, k)
<1>1. Materialize(view, r)[t][k] =
        IF kept # {} THEN view.payloads[CHOOSE vk \in kept : TRUE]
        ELSE IF cleared # {} THEN Absent
        ELSE r[t][k]
  BY DEF Materialize
<1>2. view \in Views
  BY DEF HomeViews
<1>3. \A vk \in DOMAIN view.payloads : AtHome(Resolve(view, vk)) /\ vk \in ViewKeys
  BY <1>2, ViewFields DEF HomeViews, Resolve
<1>4. ASSUME NEW vk \in kept
      PROVE  families[t] # Absent /\ vk = ViewKey(families[t], k)
             /\ view.payloads[vk] = Lookup(view, vk)
  <2>1. /\ vk \in DOMAIN view.payloads /\ view.payloads[vk] # Absent
        /\ vk[3] = k /\ Resolve(view, vk).table = t
    BY DEF At, KeptKeys
  <2>2. vk \in ViewKeys /\ Lookup(view, vk) = view.payloads[vk] /\ AtHome(Resolve(view, vk))
    BY <1>3, <2>1 DEF Lookup
  <2>3. PICK u \in Tables : families[u] # Absent /\ Version(families[u]) = <<vk[1], vk[2]>>
    BY <2>1, <2>2
  <2>4. AtHome(families[u]) /\ families[u].table = u
    BY <2>3 DEF CatalogAtHome
  <2>5. Version(Resolve(view, vk)) = <<vk[1], vk[2]>>
    BY DEF Resolve, Version
  <2>6. families[u] = Resolve(view, vk)
    BY <2>2, <2>3, <2>4, <2>5, HomeIsUnique
  <2>7. u = t
    BY <2>1, <2>4, <2>6
  <2>8. vk = ViewKey(Resolve(view, vk), k)
    BY <2>1, <2>2 DEF ViewKey, Resolve, ViewKeys
  <2>9. QED  BY <2>2, <2>3, <2>6, <2>7, <2>8
<1>5. ASSUME kept = {}, families[t] # Absent
      PROVE  Lookup(view, ViewKey(families[t], k)) = Absent
  <2>1. SUFFICES ASSUME Lookup(view, ViewKey(families[t], k)) # Absent
                 PROVE  FALSE
    OBVIOUS
  <2> DEFINE vk == ViewKey(families[t], k)
  <2>2. vk \in DOMAIN view.payloads /\ view.payloads[vk] # Absent
    BY <2>1 DEF Lookup
  <2>3. vk[3] = k /\ Version(families[t]) = Version(Resolve(view, vk))
    BY DEF ViewKey, Version, Resolve
  <2>4. AtHome(families[t]) /\ families[t].table = t
    BY <1>5 DEF CatalogAtHome
  <2> HIDE DEF vk
  <2>5. Resolve(view, vk) = families[t]
    BY <1>3, <2>2, <2>3, <2>4, HomeIsUnique
  <2>6. vk \in kept
    BY <2>2, <2>3, <2>4, <2>5 DEF At, KeptKeys
  <2>7. QED  BY <1>5, <2>6
<1> HIDE DEF kept, cleared
<1>6. CASE kept # {}
  BY <1>1, <1>4, <1>6
<1>7. CASE kept = {}
  <2>1. r[t][k] = Absent
    BY <1>5, <1>7
  <2>2. QED  BY <1>1, <1>5, <1>7, <2>1
<1>8. QED  BY <1>6, <1>7

-----------------------------------------------------------------------------
(* What the store shows as its registrations and records change *)

\* No version that is not registered shows anything.
LEMMA UnregisteredShowsNothing ==
  ASSUME OneTablePerVersion, NEW view, NEW families, NEW r,
         CatalogAtHome(families), Shown(view, families, r),
         NEW t \in Tables, NEW evolved, AtHome(evolved), evolved.table = t,
         families[t] # evolved, NEW k \in RecordKeys
  PROVE  Lookup(view, ViewKey(evolved, k)) = Absent
<1>1. SUFFICES ASSUME Lookup(view, ViewKey(evolved, k)) # Absent
               PROVE  FALSE
  OBVIOUS
<1>2. evolved \in Identities
  BY HomeType
<1>3. /\ ViewKey(evolved, k) \in ViewKeys
      /\ <<ViewKey(evolved, k)[1], ViewKey(evolved, k)[2]>> = Version(evolved)
  BY <1>2 DEF ViewKey, ViewKeys, Version, Identities
<1>4. PICK u \in Tables : families[u] # Absent /\ Version(families[u]) = Version(evolved)
  BY <1>1, <1>3 DEF Shown
<1>5. AtHome(families[u]) /\ families[u].table = u
  BY <1>4 DEF CatalogAtHome
<1>6. families[u] = evolved
  BY <1>4, <1>5, HomeIsUnique
<1>7. QED  BY <1>5, <1>6

\* A table gets another identity, and its rows that identity's shape.
Evolves(view, after, families, r, r2, t, evolved) ==
  /\ AtHome(evolved) /\ evolved.table = t /\ families[t] # evolved
  /\ \A u \in Tables : u # t => r2[u] = r[u]
  /\ \A k \in RecordKeys : r2[t][k] # Absent => r2[t][k].schema = evolved.schema
  /\ \A k \in RecordKeys : Lookup(after, ViewKey(evolved, k)) = r2[t][k]
  /\ families[t] # Absent =>
       \A k \in RecordKeys : Lookup(after, ViewKey(families[t], k)) = Absent
  /\ \A vk \in ViewKeys :
       \/ Lookup(after, vk) = Lookup(view, vk)
       \/ <<vk[1], vk[2]>> = Version(evolved)
       \/ families[t] # Absent /\ <<vk[1], vk[2]>> = Version(families[t])

LEMMA EvolvedShown ==
  ASSUME OneTablePerVersion, NEW view, NEW after, NEW families \in Catalogs,
         NEW r \in Rows, NEW r2 \in Rows,
         CatalogAtHome(families), ShapesNamed(families, r), Shown(view, families, r),
         NEW t \in Tables, NEW evolved, Evolves(view, after, families, r, r2, t, evolved),
         NEW later, later = [families EXCEPT ![t] = evolved]
  PROVE  CatalogAtHome(later) /\ ShapesNamed(later, r2) /\ Shown(after, later, r2)
<1> USE DEF Evolves
<1>1. /\ later[t] = evolved /\ \A u \in Tables : u # t => later[u] = families[u]
      /\ evolved \in Identities /\ evolved # Absent
  BY HomeType DEF Catalogs
<1>2. CatalogAtHome(later)
  BY <1>1 DEF CatalogAtHome
<1>3. ShapesNamed(later, r2)
  <2>1. ASSUME NEW u \in Tables, NEW k \in RecordKeys, r2[u][k] # Absent
        PROVE  later[u] # Absent /\ r2[u][k].schema = later[u].schema
    <3>1. CASE u = t
      BY <1>1, <2>1, <3>1
    <3>2. CASE u # t
      BY <1>1, <2>1, <3>2 DEF ShapesNamed
    <3>3. QED  BY <3>1, <3>2
  <2>2. QED  BY <2>1 DEF ShapesNamed
<1>4. ASSUME NEW u \in Tables, u # t, families[u] # Absent
      PROVE  /\ Version(families[u]) # Version(evolved)
             /\ families[t] # Absent => Version(families[u]) # Version(families[t])
  <2>1. AtHome(families[u]) /\ families[u].table = u
    BY <1>4 DEF CatalogAtHome
  <2>2. families[t] # Absent => AtHome(families[t]) /\ families[t].table = t
    BY DEF CatalogAtHome
  <2>3. Version(families[u]) = Version(evolved) => families[u] = evolved
    BY <2>1, HomeIsUnique
  <2>4. families[t] # Absent /\ Version(families[u]) = Version(families[t])
          => families[u] = families[t]
    BY <2>1, <2>2, HomeIsUnique
  <2>5. QED  BY <1>4, <2>1, <2>2, <2>3, <2>4
<1>5. ASSUME NEW u \in Tables, later[u] # Absent, NEW k \in RecordKeys
      PROVE  Lookup(after, ViewKey(later[u], k)) = r2[u][k]
  <2>1. CASE u = t
    BY <1>1, <2>1
  <2>2. CASE u # t
    <3>1. later[u] = families[u] /\ families[u] # Absent /\ r2[u] = r[u]
      BY <1>1, <1>5, <2>2
    <3>2. families[u] \in Identities
      BY <3>1 DEF Catalogs
    <3>3. /\ ViewKey(families[u], k) \in ViewKeys
          /\ <<ViewKey(families[u], k)[1], ViewKey(families[u], k)[2]>> = Version(families[u])
      BY <3>2 DEF ViewKey, ViewKeys, Version, Identities
    <3>4. Lookup(after, ViewKey(families[u], k)) = Lookup(view, ViewKey(families[u], k))
      BY <1>4, <2>2, <3>1, <3>3
    <3>5. Lookup(view, ViewKey(families[u], k)) = r[u][k]
      BY <3>1 DEF Shown
    <3>6. QED  BY <3>1, <3>4, <3>5
  <2>3. QED  BY <2>1, <2>2
<1>6. ASSUME NEW vk \in ViewKeys, Lookup(after, vk) # Absent
      PROVE  \E u \in Tables : later[u] # Absent /\ Version(later[u]) = <<vk[1], vk[2]>>
  <2>1. vk[3] \in RecordKeys /\ vk = <<vk[1], vk[2], vk[3]>>
    BY DEF ViewKeys
  <2>2. CASE <<vk[1], vk[2]>> = Version(evolved)
    BY <1>1, <2>2
  <2>3. ~(families[t] # Absent /\ <<vk[1], vk[2]>> = Version(families[t]))
    <3>1. SUFFICES ASSUME families[t] # Absent, <<vk[1], vk[2]>> = Version(families[t])
                   PROVE  FALSE
      OBVIOUS
    <3>2. vk = ViewKey(families[t], vk[3])
      BY <2>1, <3>1 DEF ViewKey, Version
    <3>3. QED  BY <1>6, <2>1, <3>1, <3>2
  <2>4. CASE Lookup(after, vk) = Lookup(view, vk)
    <3>1. PICK u \in Tables : families[u] # Absent /\ Version(families[u]) = <<vk[1], vk[2]>>
      BY <1>6, <2>4 DEF Shown
    <3>2. u # t
      BY <2>3, <3>1
    <3>3. QED  BY <1>1, <3>1, <3>2
  <2>5. QED  BY <2>2, <2>3, <2>4
<1>7. Shown(after, later, r2)
  BY <1>5, <1>6 DEF Shown
<1>8. QED  BY <1>2, <1>3, <1>7

\* A record of a registered table changes.
LEMMA RecordShown ==
  ASSUME OneTablePerVersion, NEW view \in Views, NEW families \in Catalogs,
         NEW r \in Rows, CatalogAtHome(families), ShapesNamed(families, r),
         Shown(view, families, r),
         NEW t \in Tables, families[t] # Absent, NEW k \in RecordKeys,
         NEW payload \in Records \cup {Absent},
         payload # Absent => payload.schema = families[t].schema,
         NEW operations \in Seq(Operations), Len(operations) = 1,
         operations[1].identity = families[t], operations[1].key = k,
         operations[1].payload = payload
  PROVE  LET r2 == [r EXCEPT ![t][k] = payload]
         IN  /\ ShapesNamed(families, r2)
             /\ Shown(ApplyOperations(view, operations), families, r2)
<1> DEFINE r2 == [r EXCEPT ![t][k] = payload]
           after == ApplyOperations(view, operations)
           touched == ViewKey(families[t], k)
<1>1. \A u \in Tables, l \in RecordKeys :
        r2[u][l] = IF u = t /\ l = k THEN payload ELSE r[u][l]
  BY DEF Rows
<1>2. 1 \in 1 .. Len(operations) /\ \A i \in 1 .. Len(operations) : i = 1
  OBVIOUS
<1>3. OnKey(operations[1], touched)
  BY DEF OnKey
<1>4. Lookup(after, touched) = payload
  <2>1. \A i \in 1 .. Len(operations) : i > 1 => ~OnKey(operations[i], touched)
    BY <1>2
  <2> HIDE DEF touched
  <2>2. QED  BY <1>2, <1>3, <2>1, FoldLast
<1>5. ASSUME NEW vk, vk # touched
      PROVE  Lookup(after, vk) = Lookup(view, vk)
  <2>1. \A i \in 1 .. Len(operations) : ~OnKey(operations[i], vk)
    BY <1>2, <1>5 DEF OnKey
  <2>2. QED  BY <2>1, FoldUntouched
<1> HIDE DEF r2, after
<1>6. ShapesNamed(families, r2)
  <2>1. ASSUME NEW u \in Tables, NEW l \in RecordKeys, r2[u][l] # Absent
        PROVE  families[u] # Absent /\ r2[u][l].schema = families[u].schema
    <3>1. CASE u = t /\ l = k
      BY <1>1, <2>1, <3>1
    <3>2. CASE ~(u = t /\ l = k)
      BY <1>1, <2>1, <3>2 DEF ShapesNamed
    <3>3. QED  BY <3>1, <3>2
  <2>2. QED  BY <2>1 DEF ShapesNamed
<1>7. ASSUME NEW u \in Tables, families[u] # Absent, NEW l \in RecordKeys
      PROVE  Lookup(after, ViewKey(families[u], l)) = r2[u][l]
  <2>1. CASE ViewKey(families[u], l) = touched
    <3>1. Version(families[u]) = Version(families[t]) /\ l = k
      BY <2>1 DEF ViewKey, Version
    <3>2. AtHome(families[u]) /\ AtHome(families[t]) /\ families[u].table = u
          /\ families[t].table = t
      BY <1>7 DEF CatalogAtHome
    <3>3. u = t
      BY <3>1, <3>2, HomeIsUnique
    <3>4. QED  BY <1>1, <1>4, <3>1, <3>3
  <2>2. CASE ViewKey(families[u], l) # touched
    <3>1. ~(u = t /\ l = k)
      BY <2>2
    <3>2. Lookup(view, ViewKey(families[u], l)) = r[u][l]
      BY <1>7 DEF Shown
    <3>3. QED  BY <1>1, <1>5, <2>2, <3>1, <3>2
  <2>3. QED  BY <2>1, <2>2
<1>8. ASSUME NEW vk \in ViewKeys, Lookup(after, vk) # Absent
      PROVE  \E u \in Tables : families[u] # Absent /\ Version(families[u]) = <<vk[1], vk[2]>>
  <2>1. CASE vk = touched
    BY <2>1 DEF ViewKey, Version
  <2>2. CASE vk # touched
    BY <1>5, <1>8, <2>2 DEF Shown
  <2>3. QED  BY <2>1, <2>2
<1>9. Shown(after, families, r2)
  BY <1>7, <1>8 DEF Shown
<1>10. QED  BY <1>6, <1>9 DEF r2, after

\* The retractions of an evolution in one round over its keys, the assertions in
\* another.
InTwoRounds(t, stored, evolved, N, keys, operations) ==
  /\ keys \in [1 .. N -> Carried(t)]
  /\ \A i, j \in 1 .. N : keys[i] = keys[j] => i = j
  /\ \A k \in Carried(t) : \E i \in 1 .. N : keys[i] = k
  /\ operations \in Seq(Operations)
  /\ operations = EvolutionOperations(t, stored, evolved)
  /\ Len(operations) = N + N
  /\ \A i \in 1 .. N :
       /\ operations[i] = [kind |-> "Retract", identity |-> stored, key |-> keys[i],
                           payload |-> Absent]
       /\ operations[N + i] =
            [kind |-> "Assert", identity |-> evolved, key |-> keys[i],
             payload |-> Converted(t, evolved.schema)[keys[i]]]
  /\ \A i \in 1 .. N + N : i \in 1 .. N \/ \E j \in 1 .. N : i = N + j

LEMMA EvolutionInTwoRounds ==
  ASSUME NEW t \in Tables, rows \in Rows, IsFiniteSet(Carried(t)),
         NEW stored \in Identities, NEW evolved \in Identities
  PROVE  \E N \in Nat : \E keys \in [1 .. N -> Carried(t)], operations \in Seq(Operations) :
           InTwoRounds(t, stored, evolved, N, keys, operations)
<1>1. PICK N \in Nat : N = Cardinality(Carried(t))
  BY InOrderType
<1>2. PICK keys \in [1 .. N -> Carried(t)] :
        /\ keys = InOrder(Carried(t))
        /\ \A i, j \in 1 .. N : keys[i] = keys[j] => i = j
        /\ \A k \in Carried(t) : \E i \in 1 .. N : keys[i] = k
  BY <1>1, InOrderType
<1>3. PICK operations \in Seq(Operations) :
        /\ operations = EvolutionOperations(t, stored, evolved)
        /\ Len(operations) = N + N
        /\ \A i \in 1 .. N :
             /\ operations[i] = [kind |-> "Retract", identity |-> stored, key |-> keys[i],
                                 payload |-> Absent]
             /\ operations[N + i] =
                  [kind |-> "Assert", identity |-> evolved, key |-> keys[i],
                   payload |-> Converted(t, evolved.schema)[keys[i]]]
  <2>1. /\ EvolutionOperations(t, stored, evolved) \in Seq(Operations)
        /\ Len(EvolutionOperations(t, stored, evolved)) = N + N
    BY <1>1, EvolutionOperationsType
  <2>2. ASSUME NEW i \in 1 .. N
        PROVE  /\ EvolutionOperations(t, stored, evolved)[i] =
                    [kind |-> "Retract", identity |-> stored, key |-> keys[i],
                     payload |-> Absent]
               /\ EvolutionOperations(t, stored, evolved)[N + i] =
                    [kind |-> "Assert", identity |-> evolved, key |-> keys[i],
                     payload |-> Converted(t, evolved.schema)[keys[i]]]
    <3>1. i \in 1 .. Cardinality(Carried(t))
      BY <1>1
    <3>2. /\ EvolutionOperations(t, stored, evolved)[i] =
               [kind |-> "Retract", identity |-> stored,
                key |-> InOrder(Carried(t))[i], payload |-> Absent]
          /\ EvolutionOperations(t, stored, evolved)[Cardinality(Carried(t)) + i] =
               [kind |-> "Assert", identity |-> evolved,
                key |-> InOrder(Carried(t))[i],
                payload |-> Converted(t, evolved.schema)[InOrder(Carried(t))[i]]]
      BY <3>1, EvolutionOperationsType
    <3>3. QED  BY ONLY <1>1, <1>2, <3>2, Zenon
  <2>3. QED  BY <2>1, <2>2
<1>4. \A i \in 1 .. N + N : i \in 1 .. N \/ \E j \in 1 .. N : i = N + j
  <2>1. ASSUME NEW i \in 1 .. N + N, i \notin 1 .. N
        PROVE  \E j \in 1 .. N : i = N + j
    <3>1. i - N \in 1 .. N /\ i = N + (i - N)
      BY <2>1
    <3>2. QED  BY <3>1
  <2>2. QED  BY <2>1
<1>5. QED  BY <1>2, <1>3, <1>4 DEF InTwoRounds

\* What an evolution's operations leave.
LEMMA EvolutionShows ==
  ASSUME NEW t \in Tables, rows \in Rows, IsFiniteSet(Carried(t)),
         NEW stored \in Identities, NEW evolved \in Identities,
         Version(stored) # Version(evolved), NEW view \in Views
  PROVE  LET after == ApplyOperations(view, EvolutionOperations(t, stored, evolved))
         IN  /\ \A k \in Carried(t) :
                  /\ Lookup(after, ViewKey(stored, k)) = Absent
                  /\ Lookup(after, ViewKey(evolved, k)) = Converted(t, evolved.schema)[k]
             /\ \A vk : \/ Lookup(after, vk) = Lookup(view, vk)
                        \/ \E k \in Carried(t) : vk = ViewKey(stored, k) \/ vk = ViewKey(evolved, k)
<1>1. PICK N \in Nat :
        \E keys \in [1 .. N -> Carried(t)], operations \in Seq(Operations) :
          InTwoRounds(t, stored, evolved, N, keys, operations)
  BY EvolutionInTwoRounds
<1>2. PICK keys \in [1 .. N -> Carried(t)], operations \in Seq(Operations) :
        InTwoRounds(t, stored, evolved, N, keys, operations)
  BY <1>1
<1>3. /\ operations = EvolutionOperations(t, stored, evolved)
      /\ Len(operations) = N + N
      /\ \A i, j \in 1 .. N : keys[i] = keys[j] => i = j
      /\ \A k \in Carried(t) : \E i \in 1 .. N : keys[i] = k
      /\ \A i \in 1 .. N :
           /\ operations[i] = [kind |-> "Retract", identity |-> stored, key |-> keys[i],
                               payload |-> Absent]
           /\ operations[N + i] =
                [kind |-> "Assert", identity |-> evolved, key |-> keys[i],
                 payload |-> Converted(t, evolved.schema)[keys[i]]]
  BY <1>2 DEF InTwoRounds
<1>4. \A i \in 1 .. N + N : i \in 1 .. N \/ \E j \in 1 .. N : i = N + j
  BY <1>2 DEF InTwoRounds
<1>5. ASSUME NEW i \in 1 .. N, NEW vk
      PROVE  /\ OnKey(operations[i], vk) <=> vk = ViewKey(stored, keys[i])
             /\ OnKey(operations[N + i], vk) <=> vk = ViewKey(evolved, keys[i])
             /\ i \in 1 .. N + N /\ N + i \in 1 .. N + N
  <2>1. /\ operations[i].identity = stored /\ operations[i].key = keys[i]
        /\ operations[N + i].identity = evolved /\ operations[N + i].key = keys[i]
    <3>1. /\ operations[i] = [kind |-> "Retract", identity |-> stored, key |-> keys[i],
                              payload |-> Absent]
          /\ operations[N + i] =
               [kind |-> "Assert", identity |-> evolved, key |-> keys[i],
                payload |-> Converted(t, evolved.schema)[keys[i]]]
      BY <1>3
    <3>2. QED  BY ONLY <3>1
  <2>2. i \in 1 .. N + N /\ N + i \in 1 .. N + N
    OBVIOUS
  <2>3. QED  BY ONLY <2>1, <2>2 DEF OnKey
<1>6. \A k, l : /\ ViewKey(stored, k) # ViewKey(evolved, l)
                /\ ViewKey(stored, k) = ViewKey(stored, l) => k = l
                /\ ViewKey(evolved, k) = ViewKey(evolved, l) => k = l
  BY DEF ViewKey, Version
<1> DEFINE after == ApplyOperations(view, operations)
<1>7. ASSUME NEW k \in Carried(t)
      PROVE  /\ Lookup(after, ViewKey(stored, k)) = Absent
             /\ Lookup(after, ViewKey(evolved, k)) = Converted(t, evolved.schema)[k]
  <2>1. PICK i \in 1 .. N : keys[i] = k
    BY <1>3
  <2>2. Lookup(after, ViewKey(stored, k)) = operations[i].payload
    <3>1. i \in 1 .. Len(operations) /\ OnKey(operations[i], ViewKey(stored, k))
      BY <1>3, <1>5, <2>1
    <3>2. ASSUME NEW j \in 1 .. Len(operations), j > i
          PROVE  ~OnKey(operations[j], ViewKey(stored, k))
      <4>1. CASE j \in 1 .. N
        <5>1. keys[j] # k
          BY <1>3, <2>1, <3>2, <4>1
        <5>2. QED  BY <1>5, <1>6, <4>1, <5>1
      <4>2. CASE \E m \in 1 .. N : j = N + m
        BY <1>5, <1>6, <4>2
      <4>3. QED  BY <1>3, <1>4, <4>1, <4>2
    <3>3. QED  BY <3>1, <3>2, FoldLast
  <2>3. Lookup(after, ViewKey(evolved, k)) = operations[N + i].payload
    <3>1. N + i \in 1 .. Len(operations) /\ OnKey(operations[N + i], ViewKey(evolved, k))
      BY <1>3, <1>5, <2>1
    <3>2. ASSUME NEW j \in 1 .. Len(operations), j > N + i
          PROVE  ~OnKey(operations[j], ViewKey(evolved, k))
      <4>1. j \notin 1 .. N
        BY <3>2
      <4>2. PICK m \in 1 .. N : j = N + m
        BY <1>3, <1>4, <4>1
      <4>3. keys[m] # k
        BY <1>3, <2>1, <3>2, <4>2
      <4>4. QED  BY <1>5, <1>6, <4>2, <4>3
    <3>3. QED  BY <3>1, <3>2, FoldLast
  <2>4. /\ operations[i].payload = Absent
        /\ operations[N + i].payload = Converted(t, evolved.schema)[k]
    <3>1. /\ operations[i] = [kind |-> "Retract", identity |-> stored, key |-> keys[i],
                              payload |-> Absent]
          /\ operations[N + i] =
               [kind |-> "Assert", identity |-> evolved, key |-> keys[i],
                payload |-> Converted(t, evolved.schema)[keys[i]]]
      BY <1>3
    <3>2. QED  BY ONLY <2>1, <3>1
  <2>5. QED  BY <2>2, <2>3, <2>4
<1>8. ASSUME NEW vk,
             \A k \in Carried(t) : vk # ViewKey(stored, k) /\ vk # ViewKey(evolved, k)
      PROVE  Lookup(after, vk) = Lookup(view, vk)
  <2>1. \A i \in 1 .. N : keys[i] \in Carried(t)
    OBVIOUS
  <2>2. ASSUME NEW i \in 1 .. Len(operations)
        PROVE  ~OnKey(operations[i], vk)
    <3>1. CASE i \in 1 .. N
      BY <1>5, <1>8, <2>1, <3>1
    <3>2. CASE \E j \in 1 .. N : i = N + j
      BY <1>5, <1>8, <2>1, <3>2
    <3>3. i \in 1 .. N + N
      BY ONLY <1>3, i \in 1 .. Len(operations)
    <3>4. QED  BY <1>4, <3>1, <3>2, <3>3
  <2>3. QED  BY <2>2, FoldUntouched
<1> HIDE DEF after
<1>9. after = ApplyOperations(view, EvolutionOperations(t, stored, evolved))
  BY <1>3 DEF after
<1>10. QED  BY <1>7, <1>8, <1>9

-----------------------------------------------------------------------------
(* What the latest checkpoint and the log restore *)

\* Entries that speak of some identities only.
Within(entries, families) ==
  \A n \in DOMAIN entries : \A i \in DOMAIN entries[n].body.operations :
    entries[n].body.operations[i].identity \in families

LEMMA RestoredShows ==
  ASSUME NEW cp \in Checkpoints, IsFiniteSet(cp.rows), Stands(cp),
         NEW entries \in Seq(Entries), NEW digest \in Digests, HomeHistory(digest),
         Linked(entries, digest), Extends(digest, cp.digest),
         Before(entries, digest) = Len(cp.digest),
         NEW families, cp.families \subseteq families, Within(entries, families)
  PROVE  /\ Fold(cp.rows, entries) \in HomeViews(families)
         /\ \A vk \in ViewKeys :
              Lookup(Fold(cp.rows, entries), vk) = Lookup(ViewOf(digest), vk)
<1>1. cp.rows \in SUBSET ViewRows /\ cp.digest \in Digests
  BY DEF Checkpoints
<1>2. \A row \in cp.rows : /\ row.identity \in families /\ AtHome(row.identity)
                           /\ row.payload.schema = row.identity.schema
  BY DEF Stands
<1>3. \A n \in DOMAIN entries : HomeBody(entries[n].body)
  <2>1. ASSUME NEW n \in DOMAIN entries
        PROVE  HomeBody(entries[n].body)
    <3>1. /\ entries[n].body = digest[Before(entries, digest) + n]
          /\ Before(entries, digest) + n \in 1 .. Len(digest)
      BY LinkedDigest DEF Linked
    <3>2. DOMAIN digest = 1 .. Len(digest)
      BY LenProperties DEF Digests
    <3>3. QED  BY <3>1, <3>2 DEF HomeHistory
  <2>2. QED  BY <2>1
<1>4. Fold(cp.rows, entries) \in HomeViews(families)
  <2>1. \A n \in DOMAIN entries :
          /\ HomeBody(entries[n].body)
          /\ \A i \in DOMAIN entries[n].body.operations :
               entries[n].body.operations[i].identity \in families
    BY <1>3 DEF Within
  <2>2. QED  BY <1>1, <1>2, <2>1, FoldHome
<1>5. ASSUME NEW vk \in ViewKeys
      PROVE  Lookup(Fold(cp.rows, entries), vk) = Lookup(ViewOf(digest), vk)
  <2>1. ViewOfRows(cp.rows) \in Views
    BY <1>1, ViewOfRowsType
  <2>2. Lookup(ViewOfRows(cp.rows), vk) = Lookup(ViewOf(cp.digest), vk)
    BY DEF Stands
  <2>3. QED  BY <1>1, <2>1, <2>2, FoldsTheHistory DEF Fold
<1>6. QED  BY <1>4, <1>5

LEMMA CanonicalShows ==
  ASSUME TypeOK, CarriedFinite, StoreChained, HistoryTold
  PROVE  /\ CanonicalView \in HomeViews(Identities)
         /\ \A vk \in ViewKeys : Lookup(CanonicalView, vk) = Lookup(ViewOf(head), vk)
<1>1. /\ checkpoint \in Checkpoints /\ head \in Digests /\ IsFiniteSet(checkpoint.rows)
      /\ checkpoint.families \subseteq Identities
  BY TypedFields DEF TypeOK, CarriedFinite
<1>2. /\ Uncovered \in Seq(Entries) /\ Linked(Uncovered, head)
      /\ Before(Uncovered, head) = Len(checkpoint.digest)
      /\ Extends(head, checkpoint.digest)
  BY UncoveredChained DEF StoreChained
<1>3. Within(Uncovered, Identities)
  <2>1. ASSUME NEW n \in DOMAIN Uncovered, NEW i \in DOMAIN Uncovered[n].body.operations
        PROVE  Uncovered[n].body.operations[i].identity \in Identities
    <3>1. Uncovered[n] \in Entries
      BY <1>2, ElementOfSeq, LenProperties
    <3>2. Uncovered[n].body.operations \in Seq(Operations)
      BY <3>1 DEF Entries, Bodies
    <3>3. Uncovered[n].body.operations[i] \in Operations
      BY <3>2, ElementOfSeq, LenProperties
    <3>4. QED  BY <3>3, OperationFields
  <2>2. QED  BY <2>1 DEF Within
<1>4. HomeHistory(head) /\ Stands(checkpoint)
  BY DEF HistoryTold
<1>5. QED  BY <1>1, <1>2, <1>3, <1>4, RestoredShows DEF CanonicalView

(* Rebuilding from it leaves the rows as they are. *)
LEMMA RebuildKeeps ==
  ASSUME OneTablePerVersion, TypeOK, CarriedFinite, StoreChained, HistoryTold, RowsTold
  PROVE  RebuildReproduces
<1>1. /\ CanonicalView \in HomeViews(Identities)
      /\ \A vk \in ViewKeys : Lookup(CanonicalView, vk) = Lookup(ViewOf(head), vk)
  BY CanonicalShows
<1>2. /\ catalog \in Catalogs /\ rows \in Rows
      /\ CatalogAtHome(catalog) /\ ShapesNamed(catalog, rows)
      /\ Shown(ViewOf(head), catalog, rows)
  BY DEF TypeOK, RowsTold
<1>3. ASSUME NEW t \in Tables, NEW k \in RecordKeys, catalog[t] # Absent
      PROVE  Lookup(CanonicalView, ViewKey(catalog[t], k)) = rows[t][k]
  <2>1. catalog[t] \in Identities
    BY <1>2, <1>3 DEF Catalogs
  <2>2. ViewKey(catalog[t], k) \in ViewKeys
    BY <2>1 DEF ViewKey, ViewKeys, Identities
  <2>3. Lookup(ViewOf(head), ViewKey(catalog[t], k)) = rows[t][k]
    BY <1>2, <1>3 DEF Shown
  <2>4. QED  BY <1>1, <2>2, <2>3
<1>4. \A vk \in ViewKeys : Lookup(CanonicalView, vk) # Absent =>
        \E t \in Tables : catalog[t] # Absent /\ Version(catalog[t]) = <<vk[1], vk[2]>>
  BY <1>1, <1>2 DEF Shown
<1>5. \A t \in Tables, k \in RecordKeys : rows[t][k] # Absent =>
        catalog[t] # Absent /\ Lookup(CanonicalView, ViewKey(catalog[t], k)) # Absent
  BY <1>2, <1>3 DEF ShapesNamed
<1>6. ASSUME NEW t \in Tables, NEW k \in RecordKeys
      PROVE  Materialize(CanonicalView, rows)[t][k] = rows[t][k]
  <2>1. Materialize(CanonicalView, rows)[t][k] =
          IF catalog[t] # Absent THEN Lookup(CanonicalView, ViewKey(catalog[t], k)) ELSE Absent
    BY <1>1, <1>2, <1>4, <1>5, MaterializeShown
  <2>2. QED  BY <1>3, <1>5, <2>1
<1>7. Materialize(CanonicalView, rows) \in Rows
  <2>1. CanonicalView \in Views
    BY <1>1 DEF HomeViews
  <2>2. QED  BY <1>2, <2>1, MaterializeType
<1>8. Materialize(CanonicalView, rows) = rows
  BY <1>2, <1>6, <1>7 DEF Rows
<1>9. QED  BY <1>8 DEF RebuildReproduces

(* Whoever serves or maintains knows the catalog that is on disk. *)
LEMMA NoneStale ==
  ASSUME OneEvolution, TypeOK, Process, MemoryTold,
         (pc # "closed" /\ granted = Declared) \/ pc \in {"maintain", "compact"}
  PROVE  memory = catalog
<1>1. installed \in DOMAIN Components /\ memory \in Catalogs /\ catalog \in Catalogs
  BY DEF TypeOK
<1>2. ASSUME NEW t \in Tables, Stale(t)
      PROVE  FALSE
  <2>1. t \in Declared \ granted /\ Descriptor(t).priors # {}
        /\ memory[t].schema # Descriptor(t).schema
    BY <1>2 DEF Stale
  <2>2. pending # NoPending
    BY <2>1 DEF Process
  <2>3. Bound(pending.table) /\ Descriptor(pending.table).priors # {}
    BY <2>2 DEF Process, MemoryTold
  <2>4. pending.table \in Declared
    BY <2>3 DEF Bound
  <2>5. /\ Descriptor(t) \in Components[installed] /\ Descriptor(t).table = t
        /\ Descriptor(pending.table) \in Components[installed]
        /\ Descriptor(pending.table).table = pending.table
    BY <1>1, <2>1, <2>4, DescriptorFields
  <2>6. Descriptor(t) = Descriptor(pending.table)
    BY <1>1, <2>1, <2>3, <2>5 DEF OneEvolution
  <2>7. Bound(t)
    BY <2>3, <2>5, <2>6
  <2>8. memory[t].schema = Descriptor(t).schema
    BY <1>1, <2>5, <2>7, DescriptorFields DEF Bound
  <2>9. QED  BY <2>1, <2>8
<1>3. \A t \in Tables : memory[t] = catalog[t]
  BY <1>2 DEF MemoryTold
<1>4. QED  BY <1>1, <1>3 DEF Catalogs

(* So a checkpoint stands for the whole history it is taken of. *)
LEMMA TakeCheckpointStands ==
  ASSUME OneTablePerVersion, TypeOK, CarriedFinite, StoreChained, HistoryTold, RowsTold,
         memory = catalog, TakeCheckpoint
  PROVE  Stands(checkpoint)'
<1>1. /\ checkpoint'.families = Inventory(catalog)
      /\ checkpoint'.rows = RowsOf(CanonicalView)
      /\ checkpoint'.digest = head
  BY TakeCheckpointChained DEF TakeCheckpoint
<1>2. /\ CanonicalView \in HomeViews(Identities)
      /\ \A vk \in ViewKeys : Lookup(CanonicalView, vk) = Lookup(ViewOf(head), vk)
  BY CanonicalShows
<1>3. CatalogAtHome(catalog) /\ Shown(ViewOf(head), catalog, rows)
  BY DEF RowsTold
<1>4. CanonicalView \in Views
  BY <1>2 DEF HomeViews
<1>5. \A i \in Inventory(catalog) : AtHome(i)
  BY <1>3 DEF Inventory, CatalogAtHome
<1>6. \A i, j \in Inventory(catalog) : i.table = j.table => i = j
  BY <1>3 DEF Inventory, CatalogAtHome
<1>7. ASSUME NEW row \in RowsOf(CanonicalView)
      PROVE  row.identity \in Inventory(catalog) /\ row.payload.schema = row.identity.schema
  <2>1. PICK vk \in KeptKeys(CanonicalView) :
          row = [identity |-> Resolve(CanonicalView, vk), key |-> vk[3],
                 payload |-> CanonicalView.payloads[vk]]
    BY DEF RowsOf
  <2>2. /\ vk \in DOMAIN CanonicalView.payloads /\ vk \in ViewKeys
        /\ <<vk[1], vk[2]>> \in DOMAIN CanonicalView.tables
        /\ Lookup(CanonicalView, vk) = CanonicalView.payloads[vk]
        /\ Lookup(CanonicalView, vk) # Absent
    BY <1>4, ViewFields DEF KeptKeys, Lookup
  <2>3. AtHome(Resolve(CanonicalView, vk)) /\ Lookup(CanonicalView, vk).schema = vk[2]
    BY <1>2, <2>2 DEF HomeViews, Resolve
  <2>4. PICK t \in Tables : catalog[t] # Absent /\ Version(catalog[t]) = <<vk[1], vk[2]>>
    BY <1>2, <1>3, <2>2 DEF Shown
  <2>5. Version(Resolve(CanonicalView, vk)) = <<vk[1], vk[2]>>
    BY DEF Resolve, Version
  <2>6. AtHome(catalog[t])
    BY <1>3, <2>4 DEF CatalogAtHome
  <2>7. catalog[t] = Resolve(CanonicalView, vk)
    BY <2>3, <2>4, <2>5, <2>6, HomeIsUnique
  <2>8. Resolve(CanonicalView, vk).schema = vk[2]
    BY DEF Resolve
  <2>9. QED  BY <2>1, <2>2, <2>3, <2>4, <2>7, <2>8 DEF Inventory
<1>8. \A vk \in ViewKeys :
        Lookup(ViewOfRows(RowsOf(CanonicalView)), vk) = Lookup(ViewOf(head), vk)
  BY <1>2, <1>4, RowsOfShow
<1>9. QED  BY <1>1, <1>5, <1>6, <1>7, <1>8 DEF Stands

-----------------------------------------------------------------------------
(* The steps keep memory told *)

LEMMA DescriptorAtHome ==
  ASSUME installed \in DOMAIN Components, NEW d \in Components[installed]
  PROVE  AtHome(Identity(d))
  BY DEF AtHome

LEMMA MemoryAgrees ==
  ASSUME CatalogAtHome(memory)', memory' = catalog', pending' = NoPending
  PROVE  MemoryTold'
  BY DEF MemoryTold

LEMMA NothingAtHome == CatalogAtHome(NoCatalog)
  BY DEF CatalogAtHome, NoCatalog

LEMMA StaleKept ==
  ASSUME NEW t \in Tables, Stale(t), t \notin granted',
         installed' = installed, memory'[t] = memory[t], catalog'[t] = catalog[t],
         rows'[t] = rows[t]
  PROVE  Stale(t)'
<1>1. /\ Declared' = Declared /\ Descriptor(t)' = Descriptor(t)
      /\ Carried(t)' = Carried(t)
  BY DEF Declared, Descriptor, Carried
<1>2. QED  BY <1>1 DEF Stale

LEMMA ProcessStepsMemory ==
  ASSUME Typed, MemoryTold, RowsTold,
         (\E n \in DOMAIN Components : Install(n)) \/ Open \/ Exit \/ Retry \/ Crash
  PROVE  MemoryTold'
<1>1. pc = "closed" => pending = NoPending /\ memory = NoCatalog
  BY DEF Typed, Process
<1>2. CASE \E n \in DOMAIN Components : Install(n)
  <2>1. pc' = "closed" /\ pending' = NoPending /\ memory' = NoCatalog
    BY <1>1, <1>2 DEF Install, processVars
  <2>2. QED  BY <2>1, NothingAtHome DEF MemoryTold
<1>3. CASE Open
  <2>1. memory' = catalog /\ catalog' = catalog /\ pending' = NoPending
    BY <1>1, <1>3 DEF Open, diskVars
  <2>2. QED  BY <2>1, MemoryAgrees DEF RowsTold
<1>4. CASE Exit \/ Crash
  <2>1. pc' = "closed" /\ pending' = NoPending /\ memory' = NoCatalog
    BY <1>4 DEF Exit, Crash, Gone
  <2>2. QED  BY <2>1, NothingAtHome DEF MemoryTold
<1>5. CASE Retry
  <2>1. /\ UNCHANGED <<catalog, rows, memory, granted, pending, installed>>
        /\ pc = "failed" /\ pending = NoPending
    BY <1>5 DEF Retry, diskVars, outerVars, Typed, Process
  <2>2. \A t \in Tables : Stale(t) => Stale(t)'
    <3>1. ASSUME NEW t \in Tables, Stale(t)
          PROVE  Stale(t)'
      <4>1. t \notin granted'
        BY <2>1, <3>1 DEF Stale
      <4>2. QED  BY <2>1, <3>1, <4>1, StaleKept
    <3>2. QED  BY <3>1
  <2>3. QED  BY <2>1, <2>2 DEF MemoryTold
<1>6. QED  BY <1>2, <1>3, <1>4, <1>5

(* A registration that writes no row. *)
LEMMA RegisterMemory ==
  ASSUME Typed, MemoryTold, NEW d \in Components[installed], pc = "idle", pc' # "closed",
         pending' = pending, installed' = installed, rows' = rows,
         \/ /\ UNCHANGED <<catalog, memory>> /\ granted' = granted
         \/ /\ memory' = [memory EXCEPT ![d.table] = Identity(d)]
            /\ catalog' = [catalog EXCEPT ![d.table] = Identity(d)]
            /\ granted' = granted \cup {d.table}
  PROVE  MemoryTold'
<1>1. /\ memory \in Catalogs /\ catalog \in Catalogs /\ installed \in DOMAIN Components
      /\ pending' = NoPending
  BY DEF Typed, TypeOK, Process
<1>2. /\ d.table \in Tables /\ Identity(d).table = d.table /\ AtHome(Identity(d))
  BY <1>1, DescriptorFields, DescriptorAtHome
<1>3. CASE UNCHANGED <<catalog, memory>> /\ granted' = granted
  <2>1. \A t \in Tables : Stale(t) => Stale(t)'
    <3>1. ASSUME NEW t \in Tables, Stale(t)
          PROVE  Stale(t)'
      <4>1. t \notin granted'
        BY <1>3, <3>1 DEF Stale
      <4>2. QED  BY <1>3, <3>1, <4>1, StaleKept
    <3>2. QED  BY <3>1
  <2>2. QED  BY <1>1, <1>3, <2>1 DEF MemoryTold
<1>4. CASE /\ memory' = [memory EXCEPT ![d.table] = Identity(d)]
           /\ catalog' = [catalog EXCEPT ![d.table] = Identity(d)]
           /\ granted' = granted \cup {d.table}
  <2>1. /\ memory'[d.table] = Identity(d) /\ catalog'[d.table] = Identity(d)
        /\ \A t \in Tables : t # d.table => memory'[t] = memory[t] /\ catalog'[t] = catalog[t]
    BY <1>1, <1>2, <1>4 DEF Catalogs
  <2>2. CatalogAtHome(memory)'
    BY <1>2, <2>1 DEF MemoryTold, CatalogAtHome
  <2>3. ASSUME NEW t \in Tables, memory'[t] # catalog'[t]
        PROVE  Stale(t)'
    <3>1. t # d.table /\ memory[t] # catalog[t]
      BY <2>1, <2>3
    <3>2. Stale(t)
      BY <3>1 DEF MemoryTold
    <3>3. t \notin granted'
      BY <1>4, <3>1, <3>2 DEF Stale
    <3>4. QED  BY <2>1, <3>1, <3>2, <3>3, StaleKept
  <2>4. QED  BY <1>1, <2>2, <2>3 DEF MemoryTold
<1>5. QED  BY <1>3, <1>4

LEMMA EvolveRowsMemory ==
  ASSUME Typed, MemoryTold, NEW d \in Components[installed], Register(d), EvolveRows(d)
  PROVE  MemoryTold'
<1> DEFINE t == d.table
<1>1. /\ memory \in Catalogs /\ catalog \in Catalogs /\ rows \in Rows
      /\ installed \in DOMAIN Components /\ pc = "idle"
  BY DEF Typed, TypeOK, Register
<1>2. /\ t \in Tables /\ Identity(d).table = t /\ AtHome(Identity(d))
      /\ Descriptor(t) = d /\ t \in Declared /\ Identity(d).schema = d.schema
      /\ Identity(d).family = d.family /\ d \in Descriptors
  BY <1>1, DescriptorFields, DescriptorAtHome
<1>3. /\ memory' = [memory EXCEPT ![t] = Identity(d)]
      /\ catalog' = [catalog EXCEPT ![t] = Identity(d)]
      /\ rows' = [rows EXCEPT ![t] = Converted(t, d.schema)]
      /\ pending' = [table |-> t, previous |-> memory[t]]
      /\ granted' = granted /\ installed' = installed
      /\ Mismatched(d) /\ Carried(t) # {}
  BY DEF EvolveRows, outerVars
<1>4. /\ memory'[t] = Identity(d) /\ catalog'[t] = Identity(d)
      /\ \A u \in Tables : u # t =>
           memory'[u] = memory[u] /\ catalog'[u] = catalog[u] /\ rows'[u] = rows[u]
      /\ rows'[t] = Converted(t, d.schema)
  BY <1>1, <1>2, <1>3 DEF Catalogs, Rows
<1>5. CatalogAtHome(memory)'
  BY <1>2, <1>4 DEF MemoryTold, CatalogAtHome
<1>6. ASSUME NEW u \in Tables, memory'[u] # catalog'[u]
      PROVE  Stale(u)'
  <2>1. u # t /\ memory[u] # catalog[u]
    BY <1>4, <1>6
  <2>2. Stale(u)
    BY <1>1, <2>1 DEF MemoryTold
  <2>3. u \notin granted'
    BY <1>3, <2>2 DEF Stale
  <2>4. QED  BY <1>3, <1>4, <2>1, <2>2, <2>3, StaleKept
<1>7. /\ memory[t] # Absent /\ memory[t] # Identity(d) /\ memory[t].family = d.family
      /\ memory[t].schema \in d.priors
  BY <1>3 DEF Mismatched, Evolvable
<1>8. memory[t].table = t /\ AtHome(memory[t]) /\ memory[t] \in Identities
  BY <1>1, <1>2, <1>7 DEF MemoryTold, CatalogAtHome, Catalogs
<1>9. memory[t].schema # d.schema
  BY <1>2, <1>7, <1>8 DEF Identities, Identity
<1>10. Carried(t)' # {}
  <2>1. PICK k \in RecordKeys : rows[t][k] # Absent
    BY <1>3 DEF Carried
  <2>2. rows[t][k] \in Records
    BY <1>1, <1>2, <2>1 DEF Rows
  <2>3. Converted(t, d.schema)[k] = [schema |-> d.schema, datum |-> rows[t][k].datum]
    BY <2>1 DEF Converted
  <2>4. d.schema \in Schemas /\ rows[t][k].datum \in Data
    BY <1>2, <2>2 DEF Descriptors, Records
  <2>5. Converted(t, d.schema)[k] # Absent
    BY <2>3, <2>4, FamilyAssumption DEF Records
  <2>6. QED  BY <1>4, <2>5 DEF Carried
<1>11. Descriptor(t)' = d
  BY <1>2, <1>3 DEF Descriptor
<1>12. /\ Descriptor(pending.table)'.priors # {}
       /\ pending'.previous.table = pending'.table /\ AtHome(pending'.previous)
       /\ pending'.previous.schema # Descriptor(pending.table)'.schema
       /\ Carried(pending.table)' # {}
  <2>1. pending'.table = t /\ pending'.previous = memory[t]
    BY <1>3
  <2>2. Descriptor(pending.table)' = d
    BY <1>2, <1>3, <2>1 DEF Descriptor
  <2>3. Carried(pending.table)' # {}
    BY <1>10, <2>1 DEF Carried
  <2>4. QED  BY <1>7, <1>8, <1>9, <2>1, <2>2, <2>3
<1>13. QED  BY <1>5, <1>6, <1>12 DEF MemoryTold

LEMMA FinishMemory ==
  ASSUME OneEvolution, Typed, MemoryTold, pc \in {"maintain", "compact"},
         NEW ok \in BOOLEAN, Finish(ok), UNCHANGED <<catalog, rows, installed>>
  PROVE  MemoryTold'
<1>1. /\ TypeOK /\ Process /\ memory = catalog /\ memory \in Catalogs
      /\ installed \in DOMAIN Components
  BY NoneStale DEF Typed, TypeOK
<1>2. pending' = NoPending
  BY DEF Finish
<1>3. CASE pending = NoPending \/ ok
  <2>1. memory' = memory
    BY <1>3 DEF Finish
  <2>2. QED  BY <1>1, <1>2, <2>1, MemoryAgrees DEF MemoryTold
<1>4. CASE pending # NoPending /\ ~ok
  <2>1. PICK t \in Tables, previous \in Identities :
          t = pending.table /\ previous = pending.previous
    BY <1>1, <1>4 DEF TypeOK
  <2>2. /\ memory' = [memory EXCEPT ![t] = previous] /\ granted' = granted
        /\ t \notin granted /\ Bound(t) /\ Descriptor(t).priors # {}
        /\ previous.table = t /\ AtHome(previous)
        /\ previous.schema # Descriptor(t).schema /\ Carried(t) # {}
    BY <1>1, <1>4, <2>1 DEF Finish, Process, MemoryTold
  <2>3. memory'[t] = previous /\ \A u \in Tables : u # t => memory'[u] = memory[u]
    BY <1>1, <2>2 DEF Catalogs
  <2>4. CatalogAtHome(memory)'
    BY <2>2, <2>3 DEF MemoryTold, CatalogAtHome
  <2>5. Stale(t)'
    <3>1. /\ Declared' = Declared /\ Descriptor(t)' = Descriptor(t)
          /\ Carried(t)' = Carried(t)
      BY DEF Declared, Descriptor, Carried
    <3>2. previous # Absent
      BY <2>2, HomeType
    <3>3. catalog'[t] = Identity(Descriptor(t)) /\ t \in Declared
      BY <2>2 DEF Bound
    <3>4. QED  BY <2>2, <2>3, <3>1, <3>2, <3>3 DEF Stale
  <2>6. QED  BY <1>1, <1>2, <2>3, <2>4, <2>5 DEF MemoryTold
<1>5. QED  BY <1>3, <1>4

-----------------------------------------------------------------------------
(* The steps keep the rows told *)

LEMMA HeadGrows ==
  ASSUME TypeOK, NEW operations \in Seq(Operations), NEW families \in Catalogs,
         AppendEntry(Mint(operations, families)), HomeHistory(head),
         HomeBody(Mint(operations, families).body)
  PROVE  /\ HomeHistory(head)'
         /\ ViewOf(head)' = ApplyOperations(ViewOf(head), operations)
<1>1. PICK entry \in Entries :
        /\ entry = Mint(operations, families) /\ entry.body.operations = operations
        /\ entry.previous = head
  BY MintType
<1>2. head' = Append(head, entry.body)
  BY <1>1 DEF AppendEntry, EntryDigest
<1>3. head \in Digests /\ entry.body \in Bodies
  BY DEF TypeOK, Entries
<1>4. PICK size \in Nat : size = Len(head)
  BY <1>3, LenProperties DEF Digests
<1>5. /\ DOMAIN head = 1 .. size /\ DOMAIN head' = 1 .. size + 1
      /\ \A n \in 1 .. size : head'[n] = head[n]
      /\ head'[size + 1] = entry.body
  <2>1. /\ head' \in Digests /\ Len(head') = size + 1
        /\ \A n \in 1 .. size : head'[n] = head[n]
        /\ head'[size + 1] = entry.body
    BY <1>2, <1>3, <1>4, AppendDigest
  <2>2. QED  BY <1>3, <1>4, <2>1, LenProperties DEF Digests
<1>6. HomeHistory(head)'
  <2>1. ASSUME NEW n \in 1 .. size + 1
        PROVE  HomeBody(head'[n])
    <3>1. n \in 1 .. size \/ n = size + 1
      OBVIOUS
    <3>2. QED  BY <1>1, <1>5, <3>1 DEF HomeHistory
  <2>2. QED  BY <1>5, <2>1 DEF HomeHistory
<1>7. ViewOf(head') = ApplyOperations(ViewOf(head), operations)
  BY <1>1, <1>2, <1>3, ViewOfFacts
<1>8. QED  BY <1>6, <1>7

(* A record is written. *)
LEMMA WriteRows ==
  ASSUME OneTablePerVersion, Typed, RowsTold, memory = catalog, HomeHistory(head), Write
  PROVE  RowsTold' /\ HomeHistory(head)'
<1>1. /\ TypeOK /\ Process /\ installed \in DOMAIN Components /\ head \in Digests
      /\ memory \in Catalogs /\ catalog \in Catalogs /\ rows \in Rows
  BY DEF Typed, TypeOK
<1>2. PICK t \in granted, kind \in {"Assert", "Mutate", "Retract"},
           k \in RecordKeys, payload \in Records \cup {Absent} :
        OneRecord(t, kind, k, payload)
  BY <1>1, WriteIsOneRecord
<1>3. t \in Tables /\ Bound(t)
  BY <1>1 DEF TypeOK, Process
<1>4. /\ catalog[t] = Identity(Descriptor(t)) /\ catalog[t] \in Identities
      /\ catalog[t] # Absent /\ catalog[t].schema = Descriptor(t).schema
      /\ AtHome(catalog[t])
  BY <1>1, <1>3, DescriptorFields, DescriptorAtHome DEF Bound
<1>5. /\ kind = "Retract" <=> payload = Absent
      /\ payload # Absent => payload.schema = catalog[t].schema
  BY <1>2, <1>4 DEF OneRecord
<1>6. PICK operation \in Operations :
        /\ operation = Operation(kind, t, k, payload)
        /\ operation.kind = kind /\ operation.identity = catalog[t]
        /\ operation.key = k /\ operation.payload = payload
  <2>1. Operation(kind, t, k, payload)
          = [kind |-> kind, identity |-> catalog[t], key |-> k, payload |-> payload]
    BY DEF Operation
  <2>2. [kind |-> kind, identity |-> catalog[t], key |-> k, payload |-> payload] \in Operations
    BY <1>4 DEF Operations
  <2>3. QED  BY <2>1, <2>2
<1>7. PICK operations \in Seq(Operations) :
        /\ operations = <<operation>> /\ Len(operations) = 1 /\ operations[1] = operation
        /\ DOMAIN operations = {1}
  <2>1. <<operation>> \in Seq(Operations) /\ Len(<<operation>>) = 1
        /\ <<operation>>[1] = operation /\ DOMAIN <<operation>> = {1}
    OBVIOUS
  <2>2. QED  BY <2>1
<1>8. /\ AppendEntry(Mint(operations, memory))
      /\ rows' = [rows EXCEPT ![t][k] = payload] /\ catalog' = catalog
  BY <1>2, <1>6, <1>7 DEF OneRecord, Commit
<1>9. HomeBody(Mint(operations, memory).body)
  <2>1. Mint(operations, memory).body.operations = operations
    BY <1>1, MintType
  <2>2. WellFormed(operation) /\ AtHome(operation.identity)
    BY <1>4, <1>5, <1>6 DEF WellFormed
  <2>3. QED  BY <1>7, <2>1, <2>2 DEF HomeBody
<1>10. /\ HomeHistory(head)'
       /\ ViewOf(head)' = ApplyOperations(ViewOf(head), operations)
  BY <1>1, <1>8, <1>9, HeadGrows
<1>11. /\ ShapesNamed(catalog, rows')
       /\ Shown(ApplyOperations(ViewOf(head), operations), catalog, rows')
  <2>1. ViewOf(head) \in Views
    BY <1>1, ViewOfFacts
  <2>2. CatalogAtHome(catalog) /\ ShapesNamed(catalog, rows) /\ Shown(ViewOf(head), catalog, rows)
    BY DEF RowsTold
  <2>3. /\ operations[1].identity = catalog[t] /\ operations[1].key = k
        /\ operations[1].payload = payload
    BY <1>6, <1>7
  <2>4. /\ ShapesNamed(catalog, [rows EXCEPT ![t][k] = payload])
        /\ Shown(ApplyOperations(ViewOf(head), operations), catalog,
                 [rows EXCEPT ![t][k] = payload])
    BY <1>1, <1>3, <1>4, <1>5, <1>7, <2>1, <2>2, <2>3, RecordShown
  <2>5. QED  BY <1>8, <2>4
<1>12. QED  BY <1>8, <1>10, <1>11 DEF RowsTold

(* A table without rows is registered, or evolves. *)
LEMMA CatalogAloneRows ==
  ASSUME OneTablePerVersion, Typed, MemoryTold, RowsTold, NEW d \in Components[installed],
         pc = "idle", catalog' = [catalog EXCEPT ![d.table] = Identity(d)],
         rows' = rows, head' = head,
         \/ memory[d.table] = Absent
         \/ Mismatched(d) /\ Carried(d.table) = {}
  PROVE  RowsTold'
<1> DEFINE t == d.table
           evolved == Identity(d)
<1>1. /\ memory \in Catalogs /\ catalog \in Catalogs /\ rows \in Rows
      /\ installed \in DOMAIN Components /\ head \in Digests
  BY DEF Typed, TypeOK
<1>2. /\ t \in Tables /\ evolved.table = t /\ AtHome(evolved) /\ evolved # Absent
  BY <1>1, DescriptorFields, DescriptorAtHome
<1>3. CatalogAtHome(catalog) /\ ShapesNamed(catalog, rows) /\ Shown(ViewOf(head), catalog, rows)
  BY DEF RowsTold
<1>4. memory[t] = catalog[t]
  <2>1. ~Stale(t)
    BY DEF Stale, Mismatched
  <2>2. QED  BY <1>2, <2>1 DEF MemoryTold
<1>5. catalog[t] # evolved
  BY <1>2, <1>4 DEF Mismatched
<1>6. \A k \in RecordKeys : rows[t][k] = Absent
  <2>1. CASE memory[t] = Absent
    BY <1>2, <1>3, <1>4, <2>1 DEF ShapesNamed
  <2>2. CASE Carried(t) = {}
    BY <2>2 DEF Carried
  <2>3. QED  BY <2>1, <2>2
<1> HIDE DEF t, evolved
<1>7. \A k \in RecordKeys : Lookup(ViewOf(head), ViewKey(evolved, k)) = rows[t][k]
  BY <1>2, <1>3, <1>5, <1>6, UnregisteredShowsNothing
<1>8. catalog[t] # Absent =>
        \A k \in RecordKeys : Lookup(ViewOf(head), ViewKey(catalog[t], k)) = Absent
  BY <1>2, <1>3, <1>6 DEF Shown
<1>9. Evolves(ViewOf(head), ViewOf(head), catalog, rows, rows, t, evolved)
  BY <1>2, <1>5, <1>6, <1>7, <1>8 DEF Evolves
<1>10. PICK later : later = [catalog EXCEPT ![t] = evolved]
  OBVIOUS
<1>11. CatalogAtHome(later) /\ ShapesNamed(later, rows) /\ Shown(ViewOf(head), later, rows)
  BY <1>1, <1>2, <1>3, <1>9, <1>10, EvolvedShown
<1>12. QED  BY <1>10, <1>11 DEF RowsTold, t, evolved

(* The rows of a table are converted. *)
LEMMA EvolveRowsRows ==
  ASSUME OneTablePerVersion, Typed, MemoryTold, RowsTold, HomeHistory(head),
         NEW d \in Components[installed], Register(d), EvolveRows(d)
  PROVE  RowsTold' /\ HomeHistory(head)'
<1>1. /\ memory \in Catalogs /\ catalog \in Catalogs /\ rows \in Rows /\ TypeOK
      /\ installed \in DOMAIN Components /\ head \in Digests /\ pc = "idle"
  BY DEF Typed, TypeOK, Register
<1>2. PICK t \in Tables, evolved \in Identities :
        /\ t = d.table /\ evolved = Identity(d) /\ evolved.table = t /\ AtHome(evolved)
        /\ Descriptor(t) = d /\ evolved.schema = d.schema /\ evolved # Absent
        /\ evolved.family = d.family
  BY <1>1, DescriptorFields, DescriptorAtHome
<1>3. CatalogAtHome(catalog) /\ ShapesNamed(catalog, rows) /\ Shown(ViewOf(head), catalog, rows)
      /\ ViewOf(head) \in Views
  BY <1>1, ViewOfFacts DEF RowsTold
<1>4. /\ Mismatched(d) /\ Carried(t) # {} /\ Decodes(t, memory[t].schema)
      /\ AppendEntry(Mint(EvolutionOperations(t, memory[t], evolved),
                          [memory EXCEPT ![t] = evolved]))
      /\ rows' = [rows EXCEPT ![t] = Converted(t, evolved.schema)]
      /\ catalog' = [catalog EXCEPT ![t] = evolved]
  BY <1>2 DEF EvolveRows
<1>5. memory[t] # Absent /\ memory[t] # evolved /\ memory[t].family = evolved.family
  BY <1>2, <1>4 DEF Mismatched, Evolvable
<1>6. memory[t] = catalog[t]
  <2>1. SUFFICES ASSUME Stale(t)
                 PROVE  FALSE
    BY <1>1 DEF MemoryTold
  <2>2. /\ memory[t].schema # evolved.schema /\ catalog[t] = evolved
    BY <1>2, <2>1 DEF Stale
  <2>3. PICK k \in RecordKeys : rows[t][k] # Absent /\ k \in Carried(t)
    BY <1>4 DEF Carried
  <2>4. rows[t][k].schema = memory[t].schema
    BY <1>4, <2>3 DEF Decodes
  <2>5. rows[t][k].schema = catalog[t].schema
    BY <1>3, <2>3 DEF ShapesNamed
  <2>6. QED  BY <2>2, <2>4, <2>5
<1>7. PICK stored \in Identities :
        /\ stored = memory[t] /\ stored = catalog[t] /\ stored.table = t /\ AtHome(stored)
        /\ stored # evolved /\ Version(stored) # Version(evolved)
  <2>1. memory[t] \in Identities /\ memory[t].table = t /\ AtHome(memory[t])
    BY <1>1, <1>3, <1>5, <1>6 DEF Catalogs, CatalogAtHome
  <2>2. Version(memory[t]) # Version(evolved)
    BY <1>2, <1>5, <2>1, HomeIsUnique
  <2>3. QED  BY <1>5, <1>6, <2>1, <2>2
<1>8. IsFiniteSet(Carried(t))
  BY DEF Typed, CarriedFinite
<1>9. PICK operations \in Seq(Operations) : operations = EvolutionOperations(t, stored, evolved)
  BY <1>1, <1>8, EvolutionOperationsType
<1>10. [memory EXCEPT ![t] = evolved] \in Catalogs
  BY <1>1 DEF Catalogs
<1>11. HomeBody(Mint(operations, [memory EXCEPT ![t] = evolved]).body)
  <2>1. Mint(operations, [memory EXCEPT ![t] = evolved]).body.operations = operations
    BY <1>1, <1>10, MintType
  <2>2. \A i \in DOMAIN operations :
          WellFormed(operations[i]) /\ operations[i].identity \in {stored, evolved}
    BY <1>1, <1>8, <1>9, EvolutionOperationsNamed
  <2>3. QED  BY <1>2, <1>7, <2>1, <2>2 DEF HomeBody
<1> DEFINE after == ApplyOperations(ViewOf(head), operations)
           view == ViewOf(head)
<1>12. HomeHistory(head)' /\ ViewOf(head)' = after
  <2>1. AppendEntry(Mint(operations, [memory EXCEPT ![t] = evolved]))
    BY <1>4, <1>7, <1>9
  <2>2. QED  BY <1>1, <1>10, <1>11, <2>1, HeadGrows
<1>13. /\ \A k \in Carried(t) :
            /\ Lookup(after, ViewKey(stored, k)) = Absent
            /\ Lookup(after, ViewKey(evolved, k)) = Converted(t, evolved.schema)[k]
       /\ \A vk : \/ Lookup(after, vk) = Lookup(view, vk)
                  \/ \E k \in Carried(t) : vk = ViewKey(stored, k) \/ vk = ViewKey(evolved, k)
  BY <1>1, <1>3, <1>7, <1>8, <1>9, EvolutionShows
<1> HIDE DEF after, view
<1>14. \A k, l : /\ ViewKey(stored, k) # ViewKey(evolved, l)
                 /\ ViewKey(stored, k) = ViewKey(stored, l) => k = l
                 /\ ViewKey(evolved, k) = ViewKey(evolved, l) => k = l
  BY <1>7 DEF ViewKey, Version
<1>15. PICK r2 : r2 = rows' /\ r2 \in Rows
  <2>1. \A k \in Carried(t) : Converted(t, evolved.schema)[k] \in Records
    BY <1>1, <1>8, EvolutionOperationsType
  <2>2. Converted(t, evolved.schema) \in [RecordKeys -> Records \cup {Absent}]
    BY <2>1 DEF Converted, Carried
  <2>3. [rows EXCEPT ![t] = Converted(t, evolved.schema)] \in Rows
    BY <1>1, <2>2 DEF Rows
  <2>4. QED  BY <1>4, <2>3
<1>16. r2[t] = Converted(t, evolved.schema) /\ \A u \in Tables : u # t => r2[u] = rows[u]
  BY <1>1, <1>4, <1>15 DEF Rows
<1>17. ASSUME NEW k \in RecordKeys
       PROVE  /\ r2[t][k] # Absent => r2[t][k].schema = evolved.schema
              /\ Lookup(after, ViewKey(evolved, k)) = r2[t][k]
              /\ Lookup(after, ViewKey(stored, k)) = Absent
  <2>1. CASE k \in Carried(t)
    <3>1. r2[t][k] = [schema |-> evolved.schema, datum |-> rows[t][k].datum]
      BY <1>1, <1>8, <1>16, <2>1, EvolutionOperationsType
    <3>2. r2[t][k].schema = evolved.schema
      BY <3>1
    <3>3. QED  BY <1>13, <1>16, <2>1, <3>2
  <2>2. CASE k \notin Carried(t)
    <3>1. rows[t][k] = Absent /\ r2[t][k] = Absent
      BY <1>16, <2>2 DEF Carried, Converted
    <3>2. Lookup(view, ViewKey(evolved, k)) = Absent
      BY <1>2, <1>3, <1>7, UnregisteredShowsNothing DEF view
    <3>3. Lookup(view, ViewKey(stored, k)) = Absent
      <4>1. catalog[t] # Absent
        BY <1>5, <1>6
      <4>2. QED  BY <1>3, <1>7, <3>1, <4>1 DEF Shown, view
    <3>4. \A l \in Carried(t) : l # k
      BY <2>2
    <3>5. Lookup(after, ViewKey(evolved, k)) = Lookup(view, ViewKey(evolved, k))
      BY <1>13, <1>14, <3>4
    <3>6. Lookup(after, ViewKey(stored, k)) = Lookup(view, ViewKey(stored, k))
      BY <1>13, <1>14, <3>4
    <3>7. QED  BY <3>1, <3>2, <3>3, <3>5, <3>6
  <2>3. QED  BY <2>1, <2>2
<1>18. \A vk \in ViewKeys :
         \/ Lookup(after, vk) = Lookup(view, vk)
         \/ <<vk[1], vk[2]>> = Version(evolved)
         \/ catalog[t] # Absent /\ <<vk[1], vk[2]>> = Version(catalog[t])
  <2>1. ASSUME NEW vk \in ViewKeys, Lookup(after, vk) # Lookup(view, vk)
        PROVE  \/ <<vk[1], vk[2]>> = Version(evolved)
               \/ catalog[t] # Absent /\ <<vk[1], vk[2]>> = Version(catalog[t])
    <3>1. PICK k \in Carried(t) : vk = ViewKey(stored, k) \/ vk = ViewKey(evolved, k)
      BY <1>13, <2>1
    <3>2. QED  BY <1>5, <1>6, <1>7, <3>1 DEF ViewKey, Version
  <2>2. QED  BY <2>1
<1>19. Evolves(view, after, catalog, rows, r2, t, evolved)
  <2>1. catalog[t] # Absent =>
          \A k \in RecordKeys : Lookup(after, ViewKey(catalog[t], k)) = Absent
    BY <1>7, <1>17
  <2>2. /\ \A k \in RecordKeys : r2[t][k] # Absent => r2[t][k].schema = evolved.schema
        /\ \A k \in RecordKeys : Lookup(after, ViewKey(evolved, k)) = r2[t][k]
    BY <1>17
  <2>3. catalog[t] # evolved /\ AtHome(evolved) /\ evolved.table = t
    BY <1>2, <1>7
  <2>4. QED  BY <1>16, <1>18, <2>1, <2>2, <2>3 DEF Evolves
<1>20. PICK later : later = [catalog EXCEPT ![t] = evolved]
  OBVIOUS
<1>21. CatalogAtHome(later) /\ ShapesNamed(later, r2) /\ Shown(after, later, r2)
  <2>1. Shown(view, catalog, rows)
    BY <1>3 DEF view
  <2>2. QED  BY <1>1, <1>3, <1>15, <1>19, <1>20, <2>1, EvolvedShown
<1>22. QED  BY <1>4, <1>12, <1>15, <1>20, <1>21 DEF RowsTold

-----------------------------------------------------------------------------
(* The steps keep the history told *)

LEMMA HomePrefix ==
  ASSUME NEW digest \in Digests, HomeHistory(digest), NEW earlier \in Digests,
         Extends(digest, earlier)
  PROVE  HomeHistory(earlier)
<1>1. PICK size \in 0 .. Len(digest) : size = Len(earlier)
  BY ExtendsFacts
<1>2. /\ Len(digest) \in Nat /\ DOMAIN digest = 1 .. Len(digest)
      /\ DOMAIN earlier = 1 .. size
  BY <1>1, LenProperties DEF Digests
<1>3. \A n \in 1 .. size : earlier[n] = digest[n]
  BY <1>1, PrefixFacts DEF Extends
<1>4. \A n \in 1 .. size : n \in DOMAIN digest
  BY <1>1, <1>2
<1>5. QED  BY <1>2, <1>3, <1>4 DEF HomeHistory

LEMMA HistoryKept ==
  ASSUME HistoryTold, checkpoint' = checkpoint, exported' = exported, HomeHistory(head)'
  PROVE  HistoryTold'
<1>1. ExportedHead' = ExportedHead
  BY DEF ExportedHead
<1>2. QED  BY <1>1 DEF HistoryTold

LEMMA RowsKept ==
  ASSUME RowsTold, UNCHANGED <<catalog, rows, head>>
  PROVE  RowsTold'
  BY DEF RowsTold

LEMMA ExportTold ==
  ASSUME TypeOK, Chained, HistoryTold, ExportCheckpoint \/ ExportSuffix
  PROVE  HistoryTold'
<1>1. /\ head \in Digests /\ log \in Seq(Entries) /\ Numbered(head) /\ Linked(log, head)
      /\ checkpoint.digest \in Digests /\ exported.checkpoint.digest \in Digests
      /\ Extends(head, checkpoint.digest) /\ HomeHistory(head)
      /\ Stands(checkpoint) /\ Stands(exported.checkpoint)
  BY TypedFields DEF TypeOK, Chained, StoreChained, HistoryTold
<1>2. UNCHANGED <<head, checkpoint>>
  BY DEF ExportCheckpoint, ExportSuffix, diskVars
<1>3. CASE ExportCheckpoint
  <2>1. exported'.checkpoint = checkpoint /\ exported'.suffix = <<>>
    BY <1>3 DEF ExportCheckpoint
  <2>2. ExportedHead' = checkpoint.digest
    BY <2>1 DEF ExportedHead
  <2>3. HomeHistory(checkpoint.digest)
    BY <1>1, HomePrefix
  <2>4. QED  BY <1>1, <1>2, <2>1, <2>2, <2>3 DEF HistoryTold
<1>4. CASE ExportSuffix
  <2>1. PICK rest : rest = Suffix(log, exported.checkpoint.last)
    OBVIOUS
  <2>2. /\ exported'.checkpoint = exported.checkpoint /\ exported'.suffix = rest
        /\ exported.checkpoint.last <= Len(head)
        /\ exported.checkpoint.digest = DigestAt(head, exported.checkpoint.last)
    BY <1>4, <2>1 DEF ExportSuffix, TypeOK, DigestAt
  <2>3. exported.checkpoint.last \in 0 .. Len(head)
    <3>1. exported.checkpoint.last \in Nat
      BY TypedFields
    <3>2. Len(head) \in Nat
      BY <1>1, LenProperties DEF Digests
    <3>3. QED  BY <2>2, <3>1, <3>2
  <2>4. rest \in Seq(Entries) /\ Linked(rest, head)
    <3>1. exported.checkpoint.last \in Nat
      BY TypedFields
    <3>2. QED  BY <1>1, <2>1, <2>3, <3>1, SuffixType, SuffixLinked
  <2>5. Extends(head, exported.checkpoint.digest)
    <3>1. Len(exported.checkpoint.digest) = exported.checkpoint.last
      BY DEF Chained, ExportChained
    <3>2. QED  BY <2>2, <3>1 DEF Extends
  <2>6. ExportedHead' \in {head, exported.checkpoint.digest}
    <3>1. rest # <<>> => EntryDigest(rest[Len(rest)]) = head
      BY <1>1, <2>4, LinkedHead
    <3>2. QED  BY <2>2, <3>1 DEF ExportedHead
  <2>7. HomeHistory(exported.checkpoint.digest)
    BY <1>1, <2>5, HomePrefix
  <2>8. QED  BY <1>1, <1>2, <2>2, <2>6, <2>7 DEF HistoryTold
<1>5. QED  BY <1>3, <1>4

LEMMA NothingTold ==
  /\ HomeHistory(NoDigest) /\ Stands(NoCheckpoint)
  /\ ShapesNamed(NoCatalog, EmptyRows) /\ Shown(ViewOf(NoDigest), NoCatalog, EmptyRows)
<1>1. /\ NoDigest \in Digests /\ NoDigest = <<>> /\ Len(NoDigest) = 0 /\ DOMAIN NoDigest = {}
  BY NothingTyped, EmptySeq DEF NoDigest
<1>2. HomeHistory(NoDigest)
  BY <1>1 DEF HomeHistory
<1>3. ViewOf(NoDigest) = EmptyView
  <2>1. ViewOf(NoDigest) = FoldBodiesTo(EmptyView, NoDigest, 0)
    BY <1>1, ApplyBodiesIsFoldBodiesTo DEF ViewOf
  <2>2. Foldable(NoDigest, 0)
    BY DEF Foldable
  <2>3. QED  BY <2>1, <2>2, EmptyViewType, FoldBodiesToSteps
<1>4. \A vk : Lookup(ViewOf(NoDigest), vk) = Absent
  BY <1>3, EmptyViewType
<1>5. \A vk : Lookup(ViewOfRows({}), vk) = Absent
  <2>1. {} \in SUBSET ViewRows /\ IsFiniteSet({})
    BY FS_EmptySet
  <2>2. DOMAIN ViewOfRows({}).payloads = {ViewKey(row.identity, row.key) : row \in {}}
    BY <2>1, ViewOfRowsType
  <2>3. QED  BY <2>2 DEF Lookup
<1>6. Stands(NoCheckpoint)
  BY <1>4, <1>5 DEF Stands, NoCheckpoint
<1>7. ShapesNamed(NoCatalog, EmptyRows)
  BY DEF ShapesNamed, EmptyRows
<1>8. Shown(ViewOf(NoDigest), NoCatalog, EmptyRows)
  BY <1>4 DEF Shown, NoCatalog
<1>9. QED  BY <1>2, <1>6, <1>7, <1>8

LEMMA ToldInit == Init => Told
<1> SUFFICES ASSUME Init
             PROVE  Told
  OBVIOUS
<1>1. /\ memory = NoCatalog /\ catalog = NoCatalog /\ rows = EmptyRows /\ head = NoDigest
      /\ checkpoint = NoCheckpoint /\ exported = NoExport /\ pc = "closed"
      /\ pending = NoPending
  BY DEF Init
<1>2. exported.checkpoint = NoCheckpoint /\ ExportedHead = NoDigest
  BY <1>1 DEF NoExport, ExportedHead, NoCheckpoint
<1>3. MemoryTold
  BY <1>1, NothingAtHome DEF MemoryTold
<1>4. RowsTold
  BY <1>1, NothingAtHome, NothingTold DEF RowsTold
<1>5. HistoryTold
  BY <1>1, <1>2, NothingTold DEF HistoryTold
<1>6. QED  BY <1>3, <1>4, <1>5 DEF Told

LEMMA LoseTold ==
  ASSUME Typed, Told, Lose
  PROVE  Told'
<1>1. /\ catalog' = NoCatalog /\ rows' = EmptyRows /\ head' = NoDigest
      /\ checkpoint' = NoCheckpoint /\ exported' = exported
      /\ pc = "closed" /\ UNCHANGED processVars
  BY DEF Lose
<1>2. memory' = NoCatalog /\ pending' = NoPending
  BY <1>1 DEF processVars, Typed, Process
<1>3. MemoryTold'
  BY <1>1, <1>2, NothingAtHome, MemoryAgrees
<1>4. RowsTold'
  BY <1>1, NothingAtHome, NothingTold DEF RowsTold
<1>5. ExportedHead' = ExportedHead
  BY <1>1 DEF ExportedHead
<1>6. HistoryTold'
  BY <1>1, <1>5, NothingTold DEF HistoryTold, Told
<1>7. QED  BY <1>3, <1>4, <1>6 DEF Told

(* The catalog an import takes from the inventory of a checkpoint. *)
LEMMA InventoryCatalog ==
  ASSUME NEW source \in SUBSET Identities,
         \A i \in source : AtHome(i),
         \A i, j \in source : i.table = j.table => i = j,
         NEW families,
         families = [t \in Tables |->
                       IF \E identity \in source : identity.table = t
                         THEN CHOOSE identity \in source : identity.table = t
                         ELSE Absent]
  PROVE  /\ families \in Catalogs /\ CatalogAtHome(families)
         /\ \A i \in source : i.table \in Tables /\ families[i.table] = i /\ i # Absent
<1>1. ASSUME NEW t \in Tables
      PROVE  \/ families[t] = Absent /\ ~\E i \in source : i.table = t
             \/ families[t] \in source /\ families[t].table = t
  BY <1>1
<1>2. families \in Catalogs
  <2>1. \A t \in Tables : families[t] \in Identities \cup {Absent}
    BY <1>1
  <2>2. families = [t \in Tables |-> families[t]]
    OBVIOUS
  <2>3. QED  BY <2>1, <2>2 DEF Catalogs
<1>3. CatalogAtHome(families)
  BY <1>1 DEF CatalogAtHome
<1>4. \A i \in source : i.table \in Tables
  BY DEF Identities
<1>5. ASSUME NEW i \in source
      PROVE  families[i.table] = i /\ i # Absent
  BY <1>1, <1>4, HomeType
<1>6. QED  BY <1>2, <1>3, <1>4, <1>5

LEMMA ImportTold ==
  ASSUME OneTablePerVersion, "empty" \notin Handed, "reshaped" \notin Handed,
         Typed, Chained, Told, Import
  PROVE  Told'
<1>1. PICK source \in Checkpoints, suffix \in Seq(Entries) :
        /\ source = exported.checkpoint /\ suffix = exported.suffix
        /\ IsFiniteSet(source.rows) /\ Stands(source)
        /\ source.families \in SUBSET Identities /\ source.digest \in Digests
  BY TypedFields DEF Typed, CarriedFinite, Told, HistoryTold
<1>2. /\ suffix # <<>> /\ head' = ExportedHead
      /\ Before(suffix, ExportedHead) = Len(source.digest)
      /\ Linked(suffix, ExportedHead) /\ Extends(ExportedHead, source.digest)
      /\ HomeHistory(ExportedHead)
  BY <1>1, ImportChained DEF Typed, Chained, ExportChained, Told, HistoryTold
<1>3. ExportedHead \in Digests
  <2>1. suffix[Len(suffix)] \in Entries
    BY <1>2, EmptySeq, ElementOfSeq
  <2>2. QED  BY <1>1, <1>2, <2>1, EntryDigestType DEF ExportedHead
<1>4. PICK view : view = Fold(source.rows, suffix)
  OBVIOUS
<1>5. /\ checkpoint' = source /\ exported' = exported /\ memory' = catalog'
      /\ rows' = Materialize(view, rows) /\ catalog = NoCatalog
      /\ pc = "idle" /\ pending' = pending
      /\ catalog' = [t \in Tables |->
                       IF \E identity \in source.families : identity.table = t
                         THEN CHOOSE identity \in source.families : identity.table = t
                         ELSE Absent]
  BY <1>1, <1>4 DEF Import, Fresh, outerVars
<1>6. PICK families : families = catalog'
  OBVIOUS
<1>7. /\ families \in Catalogs /\ CatalogAtHome(families)
      /\ \A i \in source.families : i.table \in Tables /\ families[i.table] = i /\ i # Absent
  <2>1. /\ \A i \in source.families : AtHome(i)
        /\ \A i, j \in source.families : i.table = j.table => i = j
    BY <1>1 DEF Stands
  <2>2. QED  BY <1>1, <1>5, <1>6, <2>1, InventoryCatalog
<1>8. Within(suffix, source.families)
  <2>1. ASSUME NEW n \in DOMAIN suffix, NEW i \in DOMAIN suffix[n].body.operations,
               suffix[n].body.operations[i].identity \notin source.families
        PROVE  "reshaped" \in Handed
    <3>1. HandedOver(exported)
      BY DEF Import
    <3> DEFINE operations ==
          UNION {{exported.suffix[m].body.operations[j] :
                    j \in DOMAIN exported.suffix[m].body.operations} :
                   m \in DOMAIN exported.suffix}
    <3>2. (\E o \in operations : o.identity \notin exported.checkpoint.families)
            => "reshaped" \in Handed
      BY <3>1 DEF HandedOver
    <3>3. suffix[n].body.operations[i] \in operations
      BY <1>1
    <3> HIDE DEF operations
    <3>4. QED  BY <1>1, <2>1, <3>2, <3>3
  <2>2. QED  BY <2>1 DEF Within
<1>9. /\ view \in HomeViews(source.families)
      /\ \A vk \in ViewKeys : Lookup(view, vk) = Lookup(ViewOf(ExportedHead), vk)
  <2>1. PICK digest \in Digests : digest = ExportedHead
    BY <1>3
  <2>2. /\ HomeHistory(digest) /\ Linked(suffix, digest) /\ Extends(digest, source.digest)
        /\ Before(suffix, digest) = Len(source.digest)
    BY <1>2, <2>1
  <2>3. IsFiniteSet(source.rows) /\ Stands(source) /\ source.families \subseteq source.families
    BY <1>1
  <2>4. /\ Fold(source.rows, suffix) \in HomeViews(source.families)
        /\ \A vk \in ViewKeys :
             Lookup(Fold(source.rows, suffix), vk) = Lookup(ViewOf(digest), vk)
    BY ONLY <1>8, <2>2, <2>3, source \in Checkpoints, suffix \in Seq(Entries),
       digest \in Digests, RestoredShows
  <2>5. QED  BY <1>4, <2>1, <2>4
<1>10. \A vk \in ViewKeys : Lookup(view, vk) # Absent =>
         \E t \in Tables : families[t] # Absent /\ Version(families[t]) = <<vk[1], vk[2]>>
  <2>1. ASSUME NEW vk \in ViewKeys, Lookup(view, vk) # Absent
        PROVE  \E t \in Tables : families[t] # Absent /\ Version(families[t]) = <<vk[1], vk[2]>>
    <3>1. PICK i \in source.families : Version(i) = <<vk[1], vk[2]>>
      BY <1>9, <2>1 DEF HomeViews
    <3>2. QED  BY <1>7, <3>1
  <2>2. QED  BY <2>1
<1>11. rows \in Rows /\ \A t \in Tables, k \in RecordKeys : rows[t][k] = Absent
  BY <1>5 DEF Typed, TypeOK, Told, RowsTold, ShapesNamed, NoCatalog
<1>12. ASSUME NEW t \in Tables, NEW k \in RecordKeys
       PROVE  rows'[t][k] = IF families[t] # Absent
                              THEN Lookup(view, ViewKey(families[t], k)) ELSE Absent
  <2>1. Materialize(view, rows)[t][k] =
          IF families[t] # Absent THEN Lookup(view, ViewKey(families[t], k)) ELSE Absent
    BY <1>7, <1>9, <1>10, <1>11, MaterializeShown
  <2>2. QED  BY <1>5, <2>1
<1>13. ASSUME NEW t \in Tables, families[t] # Absent, NEW k \in RecordKeys
       PROVE  /\ ViewKey(families[t], k) \in ViewKeys
              /\ ViewKey(families[t], k)[2] = families[t].schema
  <2>1. families[t] \in Identities
    BY <1>7, <1>13 DEF Catalogs
  <2>2. QED  BY <2>1 DEF ViewKey, ViewKeys, Identities
<1>14. ShapesNamed(families, rows')
  <2>1. ASSUME NEW t \in Tables, NEW k \in RecordKeys, rows'[t][k] # Absent
        PROVE  families[t] # Absent /\ rows'[t][k].schema = families[t].schema
    <3>1. families[t] # Absent /\ rows'[t][k] = Lookup(view, ViewKey(families[t], k))
      BY <1>12, <2>1
    <3>2. Lookup(view, ViewKey(families[t], k)).schema = families[t].schema
      BY <1>9, <1>13, <2>1, <3>1 DEF HomeViews
    <3>3. QED  BY <3>1, <3>2
  <2>2. QED  BY <2>1 DEF ShapesNamed
<1>15. Shown(ViewOf(ExportedHead), families, rows')
  <2>1. \A t \in Tables : families[t] # Absent =>
          \A k \in RecordKeys :
            Lookup(ViewOf(ExportedHead), ViewKey(families[t], k)) = rows'[t][k]
    BY <1>9, <1>12, <1>13
  <2>2. \A vk \in ViewKeys : Lookup(ViewOf(ExportedHead), vk) # Absent =>
          \E t \in Tables : families[t] # Absent /\ Version(families[t]) = <<vk[1], vk[2]>>
    BY <1>9, <1>10
  <2>3. QED  BY <2>1, <2>2 DEF Shown
<1>16. RowsTold'
  <2>1. ViewOf(head)' = ViewOf(ExportedHead)
    BY <1>2
  <2>2. QED  BY <1>6, <1>7, <1>14, <1>15, <2>1 DEF RowsTold
<1>17. HistoryTold'
  <2>1. HomeHistory(head)'
    BY <1>2
  <2>2. ExportedHead' = ExportedHead
    BY <1>5 DEF ExportedHead
  <2>3. QED  BY <1>1, <1>2, <1>5, <2>1, <2>2 DEF HistoryTold
<1>18. MemoryTold'
  <2>1. pending' = NoPending
    BY <1>5 DEF Typed, Process
  <2>2. CatalogAtHome(memory)'
    BY <1>5, <1>6, <1>7
  <2>3. QED  BY <1>5, <2>1, <2>2, MemoryAgrees
<1>19. QED  BY <1>16, <1>17, <1>18 DEF Told

-----------------------------------------------------------------------------
(* All the steps *)

LEMMA MemoryKept ==
  ASSUME MemoryTold, pc # "closed",
         UNCHANGED <<catalog, rows, memory, granted, pending, installed>>
  PROVE  MemoryTold'
<1>1. /\ \A t : /\ Descriptor(t)' = Descriptor(t)
                /\ Carried(t)' = Carried(t)
      /\ Declared' = Declared
  BY DEF Descriptor, Declared, Carried
<1>2. \A t : Stale(t)' <=> Stale(t)
  BY <1>1 DEF Stale
<1>3. CatalogAtHome(memory)' /\ (pc' # "closed" => \A t \in Tables : memory'[t] # catalog'[t] => Stale(t)')
  BY <1>2 DEF MemoryTold
<1>4. pending # NoPending =>
        /\ Descriptor(pending.table)' = Descriptor(pending.table)
        /\ Carried(pending.table)' = Carried(pending.table)
  BY DEF Descriptor, Carried
<1>5. QED  BY <1>3, <1>4 DEF MemoryTold

LEMMA RegisterTold ==
  ASSUME OneTablePerVersion, Typed, Told, NEW d \in Components[installed], Register(d)
  PROVE  Told'
<1>1. /\ TypeOK /\ Process /\ MemoryTold /\ RowsTold /\ HistoryTold /\ HomeHistory(head)
      /\ pc = "idle"
  BY DEF Typed, Told, HistoryTold, Register
<1>2. CASE EvolveRows(d)
  <2>1. checkpoint' = checkpoint /\ exported' = exported
    BY <1>2 DEF EvolveRows, outerVars
  <2>2. RowsTold' /\ HomeHistory(head)'
    BY <1>1, <1>2, EvolveRowsRows
  <2>3. QED  BY <1>1, <1>2, <2>1, <2>2, EvolveRowsMemory, HistoryKept DEF Told
<1>3. CASE /\ CatalogAlone(d)
           /\ \/ memory[d.table] = Absent
              \/ Mismatched(d) /\ Carried(d.table) = {}
  <2>1. /\ catalog' = [catalog EXCEPT ![d.table] = Identity(d)]
        /\ memory' = [memory EXCEPT ![d.table] = Identity(d)]
        /\ granted' = granted \cup {d.table}
        /\ UNCHANGED <<pc, pending, rows, head, checkpoint, exported, installed>>
    BY <1>3 DEF CatalogAlone, outerVars
  <2>2. RowsTold'
    BY <1>1, <1>3, <2>1, CatalogAloneRows
  <2>3. MemoryTold'
    BY <1>1, <2>1, RegisterMemory
  <2>4. HomeHistory(head)'
    BY <1>1, <2>1
  <2>5. QED  BY <1>1, <2>1, <2>2, <2>3, <2>4, HistoryKept DEF Told
<1>4. CASE RegisterExisting(d)
  <2>1. /\ memory' = [memory EXCEPT ![d.table] = Identity(d)]
        /\ catalog' = [catalog EXCEPT ![d.table] = Identity(d)]
        /\ granted' = granted \cup {d.table}
        /\ UNCHANGED <<catalog, rows, head, checkpoint, pc, pending, installed, exported>>
    <3>1. /\ granted' = granted \cup {d.table}
          /\ UNCHANGED <<catalog, memory, rows, head, checkpoint, pc, pending, installed,
                         exported>>
      BY <1>4 DEF RegisterExisting, Grant, diskVars, outerVars
    <3>2. memory[d.table] = Identity(d) /\ d.table \in Tables /\ memory \in Catalogs
      BY <1>1, <1>4, DescriptorFields DEF RegisterExisting, TypeOK
    <3>3. catalog[d.table] = Identity(d) /\ catalog \in Catalogs
      <4>1. Descriptor(d.table) = d /\ Identity(d).schema = d.schema
        BY <1>1, DescriptorFields DEF TypeOK
      <4>2. ~Stale(d.table)
        BY <3>2, <4>1 DEF Stale
      <4>3. QED  BY <1>1, <3>2, <4>2 DEF MemoryTold, TypeOK
    <3>4. /\ [memory EXCEPT ![d.table] = Identity(d)] = memory
          /\ [catalog EXCEPT ![d.table] = Identity(d)] = catalog
      BY <3>2, <3>3 DEF Catalogs
    <3>5. QED  BY <3>1, <3>4
  <2>2. MemoryTold'
    BY <1>1, <2>1, RegisterMemory
  <2>3. HomeHistory(head)'
    BY <1>1, <2>1
  <2>4. QED  BY <1>1, <2>1, <2>2, <2>3, RowsKept, HistoryKept DEF Told
<1>5. CASE /\ pc' = "failed" /\ UNCHANGED <<diskVars, memory, granted, pending>>
           /\ UNCHANGED outerVars \/ Fault
  <2>1. UNCHANGED <<catalog, rows, head, checkpoint, memory, granted, pending, installed,
                    exported>>
    BY <1>5 DEF Fault, diskVars, outerVars
  <2>2. MemoryTold'
    BY <1>1, <1>5, <2>1, RegisterMemory
  <2>3. HomeHistory(head)'
    BY <1>1, <2>1
  <2>4. QED  BY <1>1, <2>1, <2>2, <2>3, RowsKept, HistoryKept DEF Told
<1>6. \/ RegisterExisting(d)
      \/ /\ pc' = "failed" /\ UNCHANGED <<diskVars, memory, granted, pending>>
         /\ UNCHANGED outerVars \/ Fault
      \/ /\ CatalogAlone(d)
         /\ \/ memory[d.table] = Absent
            \/ Mismatched(d) /\ Carried(d.table) = {}
      \/ EvolveRows(d)
  BY <1>1, RegisterSplits
<1>7. QED  BY <1>2, <1>3, <1>4, <1>5, <1>6

LEMMA WriteTold ==
  ASSUME OneTablePerVersion, OneEvolution, Typed, Told, Write
  PROVE  Told'
<1>1. /\ TypeOK /\ Process /\ MemoryTold /\ RowsTold /\ HistoryTold /\ HomeHistory(head)
  BY DEF Typed, Told, HistoryTold
<1>2. /\ pc = "idle" /\ granted = Declared
      /\ UNCHANGED <<catalog, checkpoint, memory, pending, exported>>
  <2>1. \E t \in granted, kind \in {"Assert", "Mutate", "Retract"},
           k \in RecordKeys, payload \in Records \cup {Absent} :
          OneRecord(t, kind, k, payload)
    BY <1>1, WriteIsOneRecord
  <2>2. QED  BY <2>1 DEF OneRecord, Commit, Serving
<1>3. memory = catalog /\ pending = NoPending
  BY <1>1, <1>2, NoneStale DEF Process
<1>4. MemoryTold'
  BY <1>1, <1>2, <1>3, MemoryAgrees DEF MemoryTold
<1>5. RowsTold' /\ HomeHistory(head)'
  BY <1>1, <1>3, WriteRows
<1>6. QED  BY <1>1, <1>2, <1>4, <1>5, HistoryKept DEF Told

LEMMA MaintainTold ==
  ASSUME OneTablePerVersion, OneEvolution, Typed, Chained, Told,
         Checkpoint \/ Tick \/ Maintain
  PROVE  Told'
<1>1. /\ TypeOK /\ Process /\ CarriedFinite /\ StoreChained
      /\ MemoryTold /\ RowsTold /\ HistoryTold /\ HomeHistory(head) /\ Stands(checkpoint)
      /\ HomeHistory(ExportedHead) /\ Stands(exported.checkpoint)
  BY DEF Typed, Chained, Told, HistoryTold
<1>2. /\ UNCHANGED <<catalog, rows, head, exported, installed>>
      /\ ExportedHead' = ExportedHead
  <2>1. UNCHANGED <<catalog, rows, head, exported, installed>>
    BY DEF Checkpoint, TakeCheckpoint, Tick, Maintain, MaintainWithinBudget, MaintainRefused,
           MaintainCheckpoint, MaintainFails, Compact, Fault, diskVars, outerVars
  <2>2. QED  BY <2>1 DEF ExportedHead
<1>3. memory = catalog
  <2>1. (pc # "closed" /\ granted = Declared) \/ pc \in {"maintain", "compact"}
    BY DEF Checkpoint, Tick, Serving, Maintain, MaintainWithinBudget, MaintainRefused,
           MaintainCheckpoint, MaintainFails, Compact
  <2>2. QED  BY <1>1, <2>1, NoneStale
<1>4. RowsTold'
  BY <1>1, <1>2, RowsKept
<1>5. HistoryTold'
  <2>1. checkpoint' = checkpoint \/ TakeCheckpoint
    BY DEF Checkpoint, Tick, Maintain, MaintainWithinBudget, MaintainRefused,
           MaintainCheckpoint, MaintainFails, Compact, diskVars
  <2>2. Stands(checkpoint)'
    BY <1>1, <1>3, <2>1, TakeCheckpointStands
  <2>3. QED  BY <1>1, <1>2, <2>2 DEF HistoryTold
<1>6. MemoryTold'
  <2>1. CASE Checkpoint \/ Tick
    <3>1. pc = "idle" /\ UNCHANGED <<memory, granted, pending>>
      BY <2>1 DEF Checkpoint, Tick, Serving, processVars
    <3>2. QED  BY <1>1, <1>2, <3>1, MemoryKept
  <2>2. CASE MaintainCheckpoint
    <3>1. pc = "maintain" /\ UNCHANGED <<memory, granted, pending>>
      BY <2>2 DEF MaintainCheckpoint
    <3>2. QED  BY <1>1, <1>2, <3>1, MemoryKept
  <2>3. CASE MaintainWithinBudget \/ MaintainRefused \/ MaintainFails \/ Compact
    <3>1. pc \in {"maintain", "compact"} /\ \E ok \in BOOLEAN : Finish(ok)
      BY <2>3 DEF MaintainWithinBudget, MaintainRefused, MaintainFails, Compact
    <3>2. QED  BY <1>1, <1>2, <3>1, FinishMemory
  <2>4. QED  BY <2>1, <2>2, <2>3 DEF Maintain
<1>7. QED  BY <1>4, <1>5, <1>6 DEF Told

LEMMA ToldNext ==
  ASSUME OneTablePerVersion, OneEvolution, "empty" \notin Handed, "reshaped" \notin Handed,
         Typed, Chained, Told, [Next]_vars
  PROVE  Told'
<1>1. /\ TypeOK /\ CarriedFinite /\ StoreChained
      /\ MemoryTold /\ RowsTold /\ HistoryTold /\ HomeHistory(head)
  BY DEF Typed, Chained, Told, HistoryTold
<1>2. CASE UNCHANGED vars
  <2>1. UNCHANGED <<catalog, rows, head, checkpoint, pc, memory, granted, pending, installed,
                    exported>>
    BY <1>2 DEF vars, diskVars, processVars, outerVars
  <2>2. HomeHistory(head)'
    BY <1>1, <2>1
  <2>3. MemoryTold'
    <3>1. CASE pc # "closed"
      BY <1>1, <2>1, <3>1, MemoryKept
    <3>2. CASE pc = "closed"
      BY <1>1, <2>1, <3>2 DEF MemoryTold, Typed, Process
    <3>3. QED  BY <3>1, <3>2
  <2>4. QED  BY <1>1, <2>1, <2>2, <2>3, RowsKept, HistoryKept DEF Told
<1>3. CASE (\E n \in DOMAIN Components : Install(n)) \/ Open \/ Exit \/ Retry \/ Crash
  <2>1. UNCHANGED <<catalog, rows, head, checkpoint, exported>>
    BY <1>3 DEF Install, Open, Exit, Retry, Crash, Gone, Fault, diskVars, outerVars
  <2>2. MemoryTold'
    BY <1>1, <1>3, ProcessStepsMemory
  <2>3. HomeHistory(head)'
    BY <1>1, <2>1
  <2>4. QED  BY <1>1, <2>1, <2>2, <2>3, RowsKept, HistoryKept DEF Told
<1>4. CASE \E d \in Components[installed] : Register(d)
  BY <1>4, RegisterTold
<1>5. CASE Write
  BY <1>5, WriteTold
<1>6. CASE Checkpoint \/ Tick \/ Maintain
  BY <1>6, MaintainTold
<1>7. CASE RebuildFromLog
  <2>1. rows' = rows
    BY <1>1, <1>7, RebuildKeeps DEF RebuildFromLog, RebuildReproduces
  <2>2. /\ pc # "closed"
        /\ UNCHANGED <<catalog, rows, head, checkpoint, memory, granted, pending, installed,
                       exported>>
    BY <1>7, <2>1 DEF RebuildFromLog, Serving, processVars, outerVars
  <2>3. HomeHistory(head)'
    BY <1>1, <2>2
  <2>4. QED  BY <1>1, <2>2, <2>3, MemoryKept, RowsKept, HistoryKept DEF Told
<1>8. CASE ExportCheckpoint \/ ExportSuffix
  <2>1. /\ pc # "closed"
        /\ UNCHANGED <<catalog, rows, head, memory, granted, pending, installed>>
    BY <1>8 DEF ExportCheckpoint, ExportSuffix, Serving, diskVars, processVars
  <2>2. QED  BY <1>1, <1>8, <2>1, MemoryKept, RowsKept, ExportTold DEF Told
<1>9. CASE Lose
  BY <1>9, LoseTold
<1>10. CASE Import
  BY <1>10, ImportTold
<1>11. QED
  BY <1>2, <1>3, <1>4, <1>5, <1>6, <1>7, <1>8, <1>9, <1>10 DEF Next

-----------------------------------------------------------------------------
(* The theorems about the rows *)

\* What the releases declare and the operator hands to an import.
OrderlyLifetime ==
  /\ OneTablePerVersion /\ OneEvolution
  /\ "empty" \notin Handed /\ "reshaped" \notin Handed

LEMMA AlwaysTold ==
  ASSUME OrderlyLifetime
  PROVE  Spec => [](Typed /\ Chained /\ Told)
<1>1. Init => Typed /\ Chained /\ Told
  BY TypedInit, ChainedInit, ToldInit
<1>2. Typed /\ Chained /\ Told /\ [Next]_vars => (Typed /\ Chained /\ Told)'
  BY TypedNext, ChainedNext, ToldNext DEF OrderlyLifetime
<1>3. QED  BY <1>1, <1>2, PTL DEF Spec

(* No stored row is in a shape that the catalog on disk does not name: an    *)
(* evolution moves rows, catalog and log at once, what fails after it stays   *)
(* in memory, and an import takes all three from one history.                 *)
THEOREM RowsStayReadable ==
  ASSUME OrderlyLifetime
  PROVE  Spec => []CatalogNamesShape
<1>1. Typed /\ Chained /\ Told => CatalogNamesShape
  BY DEF Told, RowsTold, ShapesNamed, CatalogNamesShape
<1>2. QED  BY <1>1, AlwaysTold, PTL

(* The latest checkpoint and the entries past it always fold to the rows that *)
(* are stored: rebuild_from_log changes nothing, whatever was evolved,        *)
(* retracted, compacted, interrupted or restored.                             *)
THEOREM RebuildChangesNothing ==
  ASSUME OrderlyLifetime
  PROVE  Spec => []RebuildReproduces
<1>1. Typed /\ Chained /\ Told => RebuildReproduces
  BY RebuildKeeps DEF Typed, Chained, Told, OrderlyLifetime
<1>2. QED  BY <1>1, AlwaysTold, PTL

-----------------------------------------------------------------------------
(* The counters *)

\* The operations on identified records have identifiers below the counters.
Counted(digest, counters) ==
  \A n \in DOMAIN digest : \A i \in DOMAIN digest[n].operations :
    LET operation == digest[n].operations[i]
    IN  operation.identity.table \in IdentifiedTables =>
          /\ operation.key \in Identifiers
          /\ operation.key < counters[operation.identity.table]

\* An operation that gives out the identifier of another.
Gives(operation, other) ==
  /\ operation.kind = "Assert"
  /\ operation.identity.table = other.identity.table
  /\ operation.key = other.key

\* Each of their identifiers was given out by then.
Given(digest) ==
  \A n \in DOMAIN digest : \A i \in DOMAIN digest[n].operations :
    digest[n].operations[i].identity.table \in IdentifiedTables =>
      /\ digest[n].operations[i].key \in Identifiers
      /\ \E m \in 1 .. n : \E j \in DOMAIN digest[m].operations :
           Gives(digest[m].operations[j], digest[n].operations[i])

\* Nothing was counted for a table that is not registered.
Uncounted(families, counters) ==
  \A t \in IdentifiedTables : (\A i \in families : i.table # t) => counters[t] = 0

CheckpointCounted(cp) ==
  Counted(cp.digest, cp.counters) /\ Uncounted(cp.families, cp.counters)

CountersKept ==
  /\ Counted(head, identifiers)
  /\ \A t \in IdentifiedTables : catalog[t] = Absent => identifiers[t] = 0
  /\ Given(head) /\ Given(ExportedHead)
  /\ CheckpointCounted(checkpoint) /\ CheckpointCounted(exported.checkpoint)

(* What a digest shows on a key, one of its operations left there. *)
LEMMA ShownIsTouched ==
  ASSUME NEW digest \in Digests, NEW vk, Lookup(ViewOf(digest), vk) # Absent
  PROVE  \E n \in DOMAIN digest : \E i \in DOMAIN digest[n].operations :
           OnKey(digest[n].operations[i], vk)
<1> SUFFICES ASSUME \A n \in DOMAIN digest : \A i \in DOMAIN digest[n].operations :
                      ~OnKey(digest[n].operations[i], vk)
             PROVE  FALSE
  OBVIOUS
<1>1. PICK W : W = {v \in Views : Lookup(v, vk) = Absent}
  OBVIOUS
<1>2. \A v \in W : \A n \in 1 .. Len(digest) : \A i \in 1 .. Len(digest[n].operations) :
        ApplyOperation(v, digest[n].operations[i]) \in W
  <2> SUFFICES ASSUME NEW v \in W, NEW n \in 1 .. Len(digest),
                      NEW i \in 1 .. Len(digest[n].operations)
               PROVE  ApplyOperation(v, digest[n].operations[i]) \in W
    OBVIOUS
  <2>1. digest[n] \in Bodies /\ n \in DOMAIN digest
    BY DEF Digests
  <2>2. digest[n].operations \in Seq(Operations)
    BY <2>1 DEF Bodies
  <2>3. digest[n].operations[i] \in Operations /\ i \in DOMAIN digest[n].operations
    BY <2>2
  <2>4. v \in Views /\ Lookup(v, vk) = Absent
    BY <1>1
  <2>5. ~OnKey(digest[n].operations[i], vk)
    BY <2>1, <2>3
  <2>6. QED  BY <1>1, <2>3, <2>4, <2>5, ApplyOperationType
<1>3. EmptyView \in W /\ W \in SUBSET Views
  BY <1>1, EmptyViewType
<1>4. ApplyBodies(EmptyView, digest) \in W
  BY <1>2, <1>3, FoldBodiesStays DEF Digests
<1>5. QED  BY <1>1, <1>4 DEF ViewOf

(* What holds of a history holds of its prefixes. *)
LEMMA GivenPrefix ==
  ASSUME NEW digest \in Digests, Given(digest), NEW earlier \in Digests,
         Extends(digest, earlier)
  PROVE  Given(earlier)
<1>1. Len(earlier) \in 0 .. Len(digest) /\ DOMAIN earlier = 1 .. Len(earlier)
      /\ DOMAIN digest = 1 .. Len(digest) /\ Len(digest) \in Nat
  BY ExtendsFacts DEF Digests
<1>2. \A n \in 1 .. Len(earlier) : earlier[n] = digest[n]
  BY <1>1, PrefixFacts DEF Extends
<1>3. \A n \in 1 .. Len(earlier) : n \in 1 .. Len(digest)
                                  /\ \A m \in 1 .. n : m \in 1 .. Len(earlier)
  BY <1>1
<1>4. QED  BY <1>1, <1>2, <1>3 DEF Given

\* An operation that a history with these counters may go on with.
Admits(digest, counters, operation) ==
  operation.identity.table \in IdentifiedTables =>
    /\ operation.key \in Identifiers
    /\ operation.key < counters[operation.identity.table]
    /\ \/ operation.kind = "Assert"
       \/ \E n \in DOMAIN digest : \E i \in DOMAIN digest[n].operations :
            Gives(digest[n].operations[i], operation)

(* It may go on with a body of such operations. *)
LEMMA CountersGrow ==
  ASSUME NEW digest \in Digests, NEW body \in Bodies, NEW counters, NEW later,
         Counted(digest, counters), Given(digest),
         \A t \in IdentifiedTables : /\ counters[t] \in Nat /\ later[t] \in Nat
                                     /\ counters[t] <= later[t],
         \A i \in DOMAIN body.operations : Admits(digest, later, body.operations[i])
  PROVE  Counted(Append(digest, body), later) /\ Given(Append(digest, body))
<1>1. PICK after : after = Append(digest, body)
  OBVIOUS
<1>2. /\ after \in Digests /\ DOMAIN after = 1 .. Len(after) /\ Len(after) = Len(digest) + 1
      /\ Len(digest) \in Nat /\ DOMAIN digest = 1 .. Len(digest)
      /\ \A n \in 1 .. Len(digest) : after[n] = digest[n]
      /\ after[Len(digest) + 1] = body
  BY <1>1, AppendDigest DEF Digests
<1>3. \A n \in DOMAIN after : \/ n \in DOMAIN digest /\ after[n] = digest[n]
                              \/ n = Len(after) /\ after[n] = body
  BY <1>2
<1>4. Counted(after, later)
  <2> SUFFICES ASSUME NEW n \in DOMAIN after, NEW i \in DOMAIN after[n].operations,
                      NEW o, o = after[n].operations[i], o.identity.table \in IdentifiedTables
               PROVE  o.key \in Identifiers /\ o.key < later[o.identity.table]
    BY DEF Counted
  <2>1. CASE n \in DOMAIN digest /\ after[n] = digest[n]
    <3>1. o.key \in Identifiers /\ o.key < counters[o.identity.table]
      BY <2>1 DEF Counted
    <3>2. o.key \in Nat
      BY <3>1, FamilyAssumption DEF Identifiers
    <3>3. QED  BY <3>1, <3>2
  <2>2. CASE after[n] = body
    BY <2>2 DEF Admits
  <2>3. QED  BY <1>3, <2>1, <2>2
<1>5. Given(after)
  <2> SUFFICES ASSUME NEW n \in DOMAIN after, NEW i \in DOMAIN after[n].operations,
                      after[n].operations[i].identity.table \in IdentifiedTables
               PROVE  /\ after[n].operations[i].key \in Identifiers
                      /\ \E m \in 1 .. n : \E j \in DOMAIN after[m].operations :
                           Gives(after[m].operations[j], after[n].operations[i])
    BY DEF Given
  <2>1. CASE n \in DOMAIN digest /\ after[n] = digest[n]
    <3>1. PICK m \in 1 .. n : \E j \in DOMAIN digest[m].operations :
            Gives(digest[m].operations[j], digest[n].operations[i])
      BY <2>1 DEF Given
    <3>2. m \in 1 .. Len(digest) /\ after[m] = digest[m]
      BY <1>2, <2>1
    <3>3. after[n].operations[i].key \in Identifiers
      BY <2>1 DEF Given
    <3>4. QED  BY <2>1, <3>1, <3>2, <3>3
  <2>2. CASE n = Len(after) /\ after[n] = body
    <3>4. after[n].operations[i].key \in Identifiers
      BY <2>2 DEF Admits
    <3>1. CASE after[n].operations[i].kind = "Assert"
      <4>1. Gives(after[n].operations[i], after[n].operations[i]) /\ n \in 1 .. n
        BY <1>2, <3>1 DEF Gives
      <4>2. QED  BY <3>4, <4>1
    <3>2. CASE after[n].operations[i].kind # "Assert"
      <4>1. PICK m \in DOMAIN digest : \E j \in DOMAIN digest[m].operations :
              Gives(digest[m].operations[j], after[n].operations[i])
        BY <2>2, <3>2 DEF Admits
      <4>2. m \in 1 .. n /\ after[m] = digest[m]
        BY <1>2, <2>2
      <4>3. QED  BY <3>4, <4>1, <4>2
    <3>3. QED  BY <3>1, <3>2
  <2>3. QED  BY <1>3, <2>1, <2>2
<1>6. QED  BY <1>1, <1>4, <1>5

-----------------------------------------------------------------------------
(* What the entries of writes and evolutions are made of *)

LEMMA MintHead ==
  ASSUME TypeOK, NEW operations \in Seq(Operations), NEW families \in Catalogs,
         AppendEntry(Mint(operations, families))
  PROVE  \E body \in Bodies :
           head' = Append(head, body) /\ body.operations = operations
<1>1. PICK entry \in Entries :
        /\ entry = Mint(operations, families) /\ entry.body.operations = operations
        /\ entry.previous = head
  BY MintType
<1>2. entry.body \in Bodies
  BY DEF Entries
<1>3. head' = Append(head, entry.body)
  BY <1>1 DEF AppendEntry, EntryDigest
<1>4. QED  BY <1>1, <1>2, <1>3

\* The entry of a write is one operation on a registered table.
OneEntry(t, kind, k, payload, body) ==
  /\ OneRecord(t, kind, k, payload) /\ head' = Append(head, body)
  /\ rows' = [rows EXCEPT ![t][k] = payload]
  /\ memory[t] \in Identities /\ memory[t].table = t /\ AtHome(memory[t])
  /\ catalog[t] = memory[t] /\ t \in Tables
  /\ body.operations =
       <<[kind |-> kind, identity |-> memory[t], key |-> k, payload |-> payload]>>

LEMMA WriteIsOneEntry ==
  ASSUME Typed, Write
  PROVE  \E t \in granted, kind \in {"Assert", "Mutate", "Retract"},
            k \in RecordKeys, payload \in Records \cup {Absent}, body \in Bodies :
           OneEntry(t, kind, k, payload, body)
<1>1. /\ TypeOK /\ Process /\ installed \in DOMAIN Components /\ memory \in Catalogs
  BY DEF Typed, TypeOK
<1>2. PICK t \in granted, kind \in {"Assert", "Mutate", "Retract"},
           k \in RecordKeys, payload \in Records \cup {Absent} :
        OneRecord(t, kind, k, payload)
  BY <1>1, WriteIsOneRecord
<1>3. t \in Tables /\ Bound(t)
  BY <1>1 DEF TypeOK, Process
<1>4. /\ memory[t] \in Identities /\ memory[t].table = t /\ AtHome(memory[t])
      /\ catalog[t] = memory[t]
  BY <1>1, <1>3, DescriptorFields, DescriptorAtHome DEF Bound
<1>5. PICK operation \in Operations :
        operation = [kind |-> kind, identity |-> memory[t], key |-> k, payload |-> payload]
  BY <1>4 DEF Operations
<1>6. /\ AppendEntry(Mint(<<operation>>, memory))
      /\ rows' = [rows EXCEPT ![t][k] = payload]
  BY <1>2, <1>5 DEF OneRecord, Commit, Operation
<1>7. <<operation>> \in Seq(Operations)
  OBVIOUS
<1>8. PICK body \in Bodies : head' = Append(head, body) /\ body.operations = <<operation>>
  BY <1>1, <1>6, <1>7, MintHead
<1>9. OneEntry(t, kind, k, payload, body)
  BY <1>2, <1>3, <1>4, <1>5, <1>6, <1>8 DEF OneEntry
<1>10. QED  BY <1>9

\* That of an evolution rewrites the rows of one keyed table.
EvolutionEntry(t, stored, evolved, body) ==
  /\ head' = Append(head, body)
  /\ body.operations = EvolutionOperations(t, stored, evolved)
  /\ stored = memory[t] /\ stored # Absent /\ stored # evolved
  /\ evolved.table = t /\ t \notin IdentifiedTables /\ AtHome(evolved)
  /\ rows' = [rows EXCEPT ![t] = Converted(t, evolved.schema)]
  /\ catalog' = [catalog EXCEPT ![t] = evolved]
  /\ identifiers' = identifiers

LEMMA EvolutionIsOneEntry ==
  ASSUME Typed, NEW d \in Components[installed], EvolveRows(d)
  PROVE  \E t \in Tables, stored \in Identities, evolved \in Identities, body \in Bodies :
           EvolutionEntry(t, stored, evolved, body)
<1>1. /\ TypeOK /\ memory \in Catalogs /\ rows \in Rows /\ installed \in DOMAIN Components
  BY DEF Typed, TypeOK
<1>2. PICK t \in Tables, evolved \in Identities :
        /\ t = d.table /\ evolved = Identity(d) /\ evolved.table = t /\ AtHome(evolved)
        /\ evolved.schema = d.schema
  BY <1>1, DescriptorFields, DescriptorAtHome
<1>3. /\ Mismatched(d)
      /\ AppendEntry(Mint(EvolutionOperations(t, memory[t], evolved),
                          [memory EXCEPT ![t] = evolved]))
      /\ rows' = [rows EXCEPT ![t] = Converted(t, evolved.schema)]
      /\ catalog' = [catalog EXCEPT ![t] = evolved]
      /\ identifiers' = identifiers
  BY <1>2 DEF EvolveRows
<1>4. PICK stored \in Identities :
        stored = memory[t] /\ stored # Absent /\ stored # evolved
  BY <1>1, <1>2, <1>3 DEF Mismatched, Catalogs
<1>5. t \notin IdentifiedTables
  BY <1>2, <1>3 DEF Mismatched, Evolvable
<1>6. PICK operations \in Seq(Operations) : operations = EvolutionOperations(t, stored, evolved)
  BY <1>1, EvolutionOperationsType DEF Typed, CarriedFinite
<1>7. [memory EXCEPT ![t] = evolved] \in Catalogs
  BY <1>1 DEF Catalogs
<1>8. AppendEntry(Mint(operations, [memory EXCEPT ![t] = evolved]))
  BY <1>3, <1>4, <1>6
<1>9. PICK body \in Bodies : head' = Append(head, body) /\ body.operations = operations
  BY <1>1, <1>7, <1>8, MintHead
<1>10. EvolutionEntry(t, stored, evolved, body)
  BY <1>2, <1>3, <1>4, <1>5, <1>6, <1>9 DEF EvolutionEntry
<1>11. QED  BY <1>10

\* What is exported commits to an earlier point of the history.
LEMMA ExportedIsPrefix ==
  ASSUME TypeOK, Chained, ExportCheckpoint \/ ExportSuffix
  PROVE  /\ ExportedHead' \in Digests /\ Extends(head, ExportedHead')
         /\ ExportedHead' \in {head, checkpoint.digest, exported.checkpoint.digest}
         /\ exported'.checkpoint \in {checkpoint, exported.checkpoint}
         /\ UNCHANGED <<diskVars, processVars>>
<1>1. /\ head \in Digests /\ log \in Seq(Entries) /\ Numbered(head) /\ Linked(log, head)
      /\ checkpoint.digest \in Digests /\ exported.checkpoint.digest \in Digests
      /\ Extends(head, checkpoint.digest) /\ Extends(head, head)
      /\ exported.checkpoint.last \in Nat /\ Len(head) \in Nat
      /\ Len(exported.checkpoint.digest) = exported.checkpoint.last
  BY TypedFields, ExtendsItself, LenProperties
     DEF TypeOK, Chained, StoreChained, ExportChained, Digests
<1>2. CASE ExportCheckpoint
  <2>1. exported'.checkpoint = checkpoint /\ exported'.suffix = <<>>
        /\ UNCHANGED <<diskVars, processVars>>
    BY <1>2 DEF ExportCheckpoint
  <2>2. QED  BY <1>1, <2>1 DEF ExportedHead
<1>3. CASE ExportSuffix
  <2>1. PICK rest : rest = Suffix(log, exported.checkpoint.last)
    OBVIOUS
  <2>2. /\ exported'.checkpoint = exported.checkpoint /\ exported'.suffix = rest
        /\ exported.checkpoint.last <= Len(head)
        /\ exported.checkpoint.digest = DigestAt(head, exported.checkpoint.last)
        /\ UNCHANGED <<diskVars, processVars>>
    BY <1>3, <2>1 DEF ExportSuffix, TypeOK, DigestAt
  <2>3. Extends(head, exported.checkpoint.digest)
    BY <1>1, <2>2 DEF Extends
  <2>4. rest \in Seq(Entries) /\ Linked(rest, head)
    <3>1. exported.checkpoint.last \in 0 .. Len(head)
      BY <1>1, <2>2
    <3>2. QED  BY <1>1, <2>1, <3>1, SuffixType, SuffixLinked
  <2>5. ExportedHead' \in {head, exported.checkpoint.digest}
    <3>1. rest # <<>> => EntryDigest(rest[Len(rest)]) = head
      BY <1>1, <2>4, LinkedHead
    <3>2. QED  BY <2>2, <3>1 DEF ExportedHead
  <2>6. QED  BY <1>1, <2>2, <2>3, <2>5
<1>4. QED  BY <1>2, <1>3

-----------------------------------------------------------------------------
(* The steps keep the counters *)

(* What history and counters say of each other stays while they do. *)
LEMMA CountersStay ==
  ASSUME CountersKept, UNCHANGED <<head, identifiers, catalog, exported>>,
         checkpoint' = checkpoint \/ CheckpointCounted(checkpoint)'
  PROVE  CountersKept'
<1>1. ExportedHead' = ExportedHead
  BY DEF ExportedHead
<1>2. CheckpointCounted(checkpoint)'
  BY DEF CountersKept
<1>3. CheckpointCounted(exported.checkpoint)'
  BY DEF CountersKept
<1>4. QED  BY <1>1, <1>2, <1>3 DEF CountersKept

\* A commit goes on with the counters.
LEMMA CommitCounted ==
  ASSUME TypeOK, CountersKept, UNCHANGED <<checkpoint, exported>>,
         NEW body \in Bodies, head' = Append(head, body), identifiers' \in [Tables -> Nat],
         \A t \in IdentifiedTables : identifiers[t] <= identifiers'[t],
         \A i \in DOMAIN body.operations : Admits(head, identifiers', body.operations[i]),
         \A t \in IdentifiedTables : catalog'[t] = Absent => identifiers'[t] = 0
  PROVE  CountersKept'
<1>1. head \in Digests /\ Counted(head, identifiers) /\ Given(head)
  BY DEF TypeOK, CountersKept
<1>2. \A t \in IdentifiedTables : /\ identifiers[t] \in Nat /\ identifiers'[t] \in Nat
                                  /\ identifiers[t] <= identifiers'[t]
  BY FamilyAssumption DEF TypeOK
<1>3. Counted(Append(head, body), identifiers') /\ Given(Append(head, body))
  BY <1>1, <1>2, CountersGrow
<1>4. ExportedHead' = ExportedHead
  BY DEF ExportedHead
<1>5. QED  BY <1>3, <1>4 DEF CountersKept, CheckpointCounted

LEMMA WriteCounted ==
  ASSUME OneTablePerVersion, Typed, Told, CountersKept, Write
  PROVE  CountersKept'
<1>1. /\ TypeOK /\ Process /\ Counted(head, identifiers) /\ Given(head) /\ head \in Digests
      /\ Shown(ViewOf(head), catalog, rows) /\ HomeHistory(head)
      /\ identifiers \in [Tables -> Nat]
  BY DEF Typed, TypeOK, Told, RowsTold, HistoryTold, CountersKept
<1>2. PICK t \in granted, kind \in {"Assert", "Mutate", "Retract"},
           k \in RecordKeys, payload \in Records \cup {Absent}, body \in Bodies :
        OneEntry(t, kind, k, payload, body)
  BY WriteIsOneEntry
<1>3. /\ t \in Tables /\ memory[t] \in Identities /\ memory[t].table = t /\ AtHome(memory[t])
      /\ catalog[t] = memory[t] /\ OneRecord(t, kind, k, payload) /\ catalog[t] # Absent
  BY <1>2, HomeType DEF OneEntry
<1>4. PICK operation : operation = body.operations[1] /\ DOMAIN body.operations = {1}
                       /\ operation.kind = kind /\ operation.identity = memory[t]
                       /\ operation.key = k /\ operation.identity.table = t
  BY <1>2, <1>3 DEF OneEntry
<1>5. /\ catalog' = catalog /\ UNCHANGED <<checkpoint, exported>>
      /\ kind # "Assert" => rows[t][k] # Absent
      /\ t \in IdentifiedTables => k \in Identifiers
      /\ \/ /\ t \in IdentifiedTables /\ kind = "Assert"
            /\ k = NextIdentifier(t)
            /\ identifiers' = [identifiers EXCEPT ![t] = k + 1]
         \/ /\ t \in IdentifiedTables => kind # "Assert"
            /\ identifiers' = identifiers
  BY <1>3 DEF OneRecord, Commit
<1>6. Identifiers \subseteq Nat
  BY FamilyAssumption DEF Identifiers
<1>7. CASE t \in IdentifiedTables /\ kind = "Assert"
  <2>1. identifiers' = [identifiers EXCEPT ![t] = k + 1] /\ k = NextIdentifier(t) /\ k \in Nat
        /\ k \in Identifiers
    BY <1>5, <1>6, <1>7
  <2>2. identifiers[t] <= k /\ identifiers[t] \in Nat
    BY <1>1, <1>3, <2>1 DEF NextIdentifier
  <2>3. identifiers' \in [Tables -> Nat] /\ identifiers'[t] = k + 1
        /\ \A u \in Tables : u # t => identifiers'[u] = identifiers[u]
    BY <1>1, <1>3, <2>1
  <2>4. \A u \in IdentifiedTables : identifiers[u] <= identifiers'[u]
    BY <1>1, <2>1, <2>2, <2>3, FamilyAssumption
  <2>5. Admits(head, identifiers', operation)
    BY <1>4, <1>7, <2>1, <2>3 DEF Admits
  <2>6. \A u \in IdentifiedTables : catalog'[u] = Absent => identifiers'[u] = 0
    BY <1>3, <1>5, <2>3, FamilyAssumption DEF CountersKept
  <2>7. QED  BY <1>1, <1>2, <1>4, <1>5, <2>3, <2>4, <2>5, <2>6, CommitCounted DEF OneEntry
<1>8. CASE ~(t \in IdentifiedTables /\ kind = "Assert")
  <2>1. identifiers' = identifiers
    BY <1>5, <1>8
  <2>2. Admits(head, identifiers, operation)
    <3>1. SUFFICES ASSUME t \in IdentifiedTables
                   PROVE  /\ k \in Identifiers /\ k < identifiers[t]
                          /\ \E m \in DOMAIN head : \E j \in DOMAIN head[m].operations :
                               Gives(head[m].operations[j], operation)
      BY <1>4 DEF Admits
    <3>2. Lookup(ViewOf(head), ViewKey(catalog[t], k)) # Absent
      BY <1>1, <1>3, <1>5, <1>8, <3>1 DEF Shown
    <3>3. PICK n \in DOMAIN head : \E i \in DOMAIN head[n].operations :
            OnKey(head[n].operations[i], ViewKey(catalog[t], k))
      BY <1>1, <3>2, ShownIsTouched
    <3>4. PICK i \in DOMAIN head[n].operations :
            OnKey(head[n].operations[i], ViewKey(catalog[t], k))
      BY <3>3
    <3>5. PICK earlier : earlier = head[n].operations[i]
      OBVIOUS
    <3>6. Version(earlier.identity) = Version(catalog[t]) /\ earlier.key = k
      BY <3>4, <3>5 DEF OnKey, ViewKey, Version
    <3>7. AtHome(earlier.identity)
      BY <1>1, <3>5 DEF HomeHistory, HomeBody
    <3>8. earlier.identity = catalog[t]
      BY <1>3, <3>6, <3>7, HomeIsUnique
    <3>9. earlier.identity.table = t
      BY <1>3, <3>8
    <3>10. k \in Identifiers /\ k < identifiers[t]
      BY <1>1, <3>1, <3>5, <3>6, <3>9 DEF Counted
    <3>11. PICK m \in 1 .. n : \E j \in DOMAIN head[m].operations :
             Gives(head[m].operations[j], earlier)
      BY <1>1, <3>1, <3>5, <3>9 DEF Given
    <3>12. m \in DOMAIN head
      BY <1>1, <3>3 DEF Digests
    <3>13. PICK j \in DOMAIN head[m].operations : Gives(head[m].operations[j], operation)
      BY <1>4, <3>6, <3>9, <3>11 DEF Gives
    <3>14. QED  BY <3>10, <3>12, <3>13
  <2>3. \A u \in IdentifiedTables : /\ identifiers[u] <= identifiers'[u]
                                    /\ catalog'[u] = Absent => identifiers'[u] = 0
    BY <1>1, <1>5, <2>1, FamilyAssumption DEF CountersKept
  <2>4. \A i \in DOMAIN body.operations : Admits(head, identifiers', body.operations[i])
    BY <1>4, <2>1, <2>2
  <2>5. identifiers' \in [Tables -> Nat]
    BY <1>1, <2>1
  <2>6. QED  BY <1>1, <1>2, <1>5, <2>3, <2>4, <2>5, CommitCounted DEF OneEntry
<1>9. QED  BY <1>7, <1>8

LEMMA EvolutionCounted ==
  ASSUME Typed, Told, CountersKept, NEW d \in Components[installed], EvolveRows(d)
  PROVE  CountersKept'
<1>1. /\ TypeOK /\ rows \in Rows /\ identifiers \in [Tables -> Nat]
      /\ CatalogAtHome(memory)
  BY DEF Typed, TypeOK, Told, MemoryTold
<1>2. PICK t \in Tables, stored \in Identities, evolved \in Identities, body \in Bodies :
        EvolutionEntry(t, stored, evolved, body)
  BY EvolutionIsOneEntry
<1>3. stored.table = t /\ evolved.table = t /\ t \notin IdentifiedTables
  BY <1>1, <1>2 DEF EvolutionEntry, CatalogAtHome
<1>4. IsFiniteSet(Carried(t))
  BY DEF Typed, CarriedFinite
<1>5. \A i \in DOMAIN body.operations : Admits(head, identifiers', body.operations[i])
  <2>1. \A i \in DOMAIN body.operations : body.operations[i].identity \in {stored, evolved}
    BY <1>1, <1>2, <1>4, EvolutionOperationsNamed DEF EvolutionEntry
  <2>2. QED  BY <1>3, <2>1 DEF Admits
<1>6. /\ identifiers' = identifiers /\ head' = Append(head, body)
      /\ UNCHANGED <<checkpoint, exported>>
  BY <1>2 DEF EvolutionEntry, EvolveRows, outerVars
<1>7. \A u \in IdentifiedTables : /\ identifiers[u] <= identifiers'[u]
                                  /\ catalog'[u] = Absent => identifiers'[u] = 0
  <2>1. \A u \in IdentifiedTables : catalog'[u] = catalog[u]
    <3>1. catalog' = [catalog EXCEPT ![t] = evolved] /\ catalog \in [Tables -> Identities \cup {Absent}]
      BY <1>1, <1>2 DEF EvolutionEntry, TypeOK, Catalogs
    <3>2. QED  BY <1>3, <3>1, FamilyAssumption
  <2>2. QED  BY <1>1, <1>6, <2>1, FamilyAssumption DEF CountersKept
<1>8. QED  BY <1>1, <1>5, <1>6, <1>7, CommitCounted

LEMMA RegisterCounted ==
  ASSUME Typed, Told, CountersKept, NEW d \in Components[installed], Register(d)
  PROVE  CountersKept'
<1>1. /\ TypeOK /\ Process /\ installed \in DOMAIN Components /\ pc = "idle"
      /\ identifiers \in [Tables -> Nat] /\ catalog \in Catalogs
      /\ pc # "closed" => \A t \in Tables : memory[t] # catalog[t] => Stale(t)
  BY DEF Typed, TypeOK, Told, MemoryTold, Register
<1>2. d.table \in Tables /\ Identity(d) # Absent
  BY <1>1, DescriptorFields
<1>3. \/ UNCHANGED <<head, identifiers, catalog, exported, checkpoint>>
      \/ /\ CatalogAlone(d)
         /\ \/ /\ memory[d.table] = Absent
               /\ identifiers' = IF d.table \in IdentifiedTables
                                   THEN [identifiers EXCEPT ![d.table] = 1]
                                   ELSE identifiers
            \/ identifiers' = identifiers
      \/ EvolveRows(d)
  BY <1>1, RegisterSplits DEF RegisterExisting, Fault, diskVars, outerVars
<1>4. CASE UNCHANGED <<head, identifiers, catalog, exported, checkpoint>>
  BY <1>4, CountersStay
<1>5. CASE /\ CatalogAlone(d)
           /\ \/ /\ memory[d.table] = Absent
                 /\ identifiers' = IF d.table \in IdentifiedTables
                                     THEN [identifiers EXCEPT ![d.table] = 1]
                                     ELSE identifiers
              \/ identifiers' = identifiers
  <2>1. /\ catalog' = [catalog EXCEPT ![d.table] = Identity(d)]
        /\ UNCHANGED <<head, checkpoint, exported>>
    BY <1>5 DEF CatalogAlone, outerVars
  <2>2. \A t \in IdentifiedTables :
          \/ identifiers'[t] = identifiers[t]
          \/ identifiers[t] = 0 /\ t = d.table
    <3>1. memory[d.table] = Absent => catalog[d.table] = Absent
      BY <1>1, <1>2 DEF Stale
    <3>2. d.table \in IdentifiedTables /\ memory[d.table] = Absent => identifiers[d.table] = 0
      BY <3>1 DEF CountersKept
    <3>3. QED  BY <1>1, <1>2, <1>5, <3>2, FamilyAssumption
  <2>3. \A t \in IdentifiedTables : catalog'[t] = Absent => identifiers'[t] = 0
    BY <1>1, <1>2, <2>1, <2>2, FamilyAssumption DEF CountersKept, Catalogs
  <2>4. Counted(head, identifiers')
    <3> SUFFICES ASSUME NEW n \in DOMAIN head, NEW i \in DOMAIN head[n].operations,
                        NEW o, o = head[n].operations[i], o.identity.table \in IdentifiedTables
                 PROVE  o.key \in Identifiers /\ o.key < identifiers'[o.identity.table]
      BY DEF Counted
    <3>1. o.key \in Identifiers /\ o.key < identifiers[o.identity.table]
      BY DEF CountersKept, Counted
    <3>2. o.key \in Nat /\ ~(o.key < 0)
      BY <3>1, FamilyAssumption DEF Identifiers
    <3>3. QED  BY <2>2, <3>1, <3>2
  <2>5. ExportedHead' = ExportedHead
    BY <2>1 DEF ExportedHead
  <2>6. Given(head) /\ Given(ExportedHead) /\ CheckpointCounted(checkpoint)
        /\ CheckpointCounted(exported.checkpoint)
    BY DEF CountersKept
  <2>7. QED  BY <2>1, <2>3, <2>4, <2>5, <2>6 DEF CountersKept
<1>6. CASE EvolveRows(d)
  BY <1>6, EvolutionCounted
<1>7. QED  BY <1>3, <1>4, <1>5, <1>6

\* A checkpoint takes the counters with it.
LEMMA TakeCheckpointCounted ==
  ASSUME TypeOK, Chained, Told, CountersKept, memory = catalog, TakeCheckpoint
  PROVE  CheckpointCounted(checkpoint)'
<1>1. /\ checkpoint'.digest = head /\ checkpoint'.counters = identifiers
      /\ checkpoint'.families = Inventory(memory)
  BY TakeCheckpointChained DEF TakeCheckpoint, Chained
<1>2. Uncounted(Inventory(memory), identifiers)
  <2> SUFFICES ASSUME NEW t \in IdentifiedTables, \A i \in Inventory(memory) : i.table # t
               PROVE  identifiers[t] = 0
    BY DEF Uncounted
  <2>1. t \in Tables
    BY FamilyAssumption
  <2>2. catalog[t] = Absent
    <3>1. SUFFICES ASSUME memory[t] # Absent
                   PROVE  FALSE
      OBVIOUS
    <3>2. memory[t] \in Inventory(memory) /\ memory[t].table = t
      BY <2>1, <3>1 DEF Inventory, Told, MemoryTold, CatalogAtHome
    <3>3. QED  BY <3>2
  <2>3. QED  BY <2>2 DEF CountersKept
<1>3. QED  BY <1>1, <1>2 DEF CountersKept, CheckpointCounted

LEMMA ImportCounted ==
  ASSUME "empty" \notin Handed, "minting" \notin Handed, Typed, Chained, CountersKept,
         Import
  PROVE  CountersKept'
<1>1. PICK source \in Checkpoints, suffix \in Seq(Entries) :
        /\ source = exported.checkpoint /\ suffix = exported.suffix
        /\ source.digest \in Digests /\ source.counters \in [Tables -> Nat]
        /\ source.families \in SUBSET Identities
  BY TypedFields DEF Typed
<1>2. /\ suffix # <<>> /\ head' = ExportedHead
      /\ Before(suffix, ExportedHead) = Len(source.digest)
      /\ Linked(suffix, ExportedHead) /\ Extends(ExportedHead, source.digest)
  BY <1>1, ImportChained DEF Typed, Chained, ExportChained
<1>3. PICK digest \in Digests : digest = ExportedHead
  <2>1. suffix[Len(suffix)] \in Entries
    BY <1>2, EmptySeq, ElementOfSeq
  <2>2. QED  BY <1>1, <1>2, <2>1, EntryDigestType DEF ExportedHead
<1>4. /\ identifiers' = source.counters /\ UNCHANGED exported /\ checkpoint' = source
      /\ HandedOver(exported)
      /\ catalog' = [t \in Tables |->
                       IF \E identity \in source.families : identity.table = t
                         THEN CHOOSE identity \in source.families : identity.table = t
                         ELSE Absent]
  BY <1>1 DEF Import, outerVars
<1>5. Counted(source.digest, source.counters) /\ Uncounted(source.families, source.counters)
      /\ Given(digest)
  BY <1>1, <1>3 DEF CountersKept, CheckpointCounted
<1>6. PICK size \in Nat : size = Len(digest) /\ DOMAIN digest = 1 .. size
  BY LenProperties DEF Digests
<1>7. PICK point \in 0 .. size : /\ point = Len(source.digest)
                                /\ DOMAIN source.digest = 1 .. point
                                /\ source.digest = DigestAt(digest, point)
                                /\ \A n \in 1 .. point : source.digest[n] = digest[n]
  <2>1. Len(source.digest) \in 0 .. size /\ source.digest = DigestAt(digest, Len(source.digest))
    BY <1>1, <1>2, <1>3, <1>6, ExtendsFacts DEF Extends
  <2>2. DOMAIN source.digest = 1 .. Len(source.digest)
    BY <1>1 DEF Digests
  <2>3. \A n \in 1 .. Len(source.digest) : source.digest[n] = digest[n]
    BY <1>6, <2>1, PrefixFacts
  <2>4. QED  BY <2>1, <2>2, <2>3
<1>8. \A n \in 1 .. size : n > point =>
        \E m \in DOMAIN suffix : suffix[m].body = digest[n]
  <2>1. ASSUME NEW n \in 1 .. size, n > point
        PROVE  \E m \in DOMAIN suffix : suffix[m].body = digest[n]
    <3>1. Len(suffix) \in Nat /\ DOMAIN suffix = 1 .. Len(suffix) /\ size - Len(suffix) = point
      BY <1>2, <1>3, <1>6, <1>7 DEF Before
    <3>2. PICK m \in 1 .. Len(suffix) : point + m = n
      <4>1. n - point \in 1 .. Len(suffix) /\ point + (n - point) = n
        BY <2>1, <3>1
      <4>2. QED  BY <4>1
    <3>3. suffix[m].body = digest[point + m]
      BY <1>2, <1>3, <1>6, <3>1 DEF Linked, Before
    <3>4. QED  BY <3>1, <3>2, <3>3
  <2>2. QED  BY <2>1
<1>9. \A n \in 1 .. size : n > point => \A i \in DOMAIN digest[n].operations :
        ~(digest[n].operations[i].kind = "Assert" /\ digest[n].operations[i].key \in Identifiers)
  <2>1. ASSUME NEW n \in 1 .. size, n > point, NEW i \in DOMAIN digest[n].operations,
               digest[n].operations[i].kind = "Assert",
               digest[n].operations[i].key \in Identifiers
        PROVE  FALSE
    <3>1. PICK m \in DOMAIN suffix : suffix[m].body = digest[n]
      BY <1>8, <2>1
    <3> DEFINE operations ==
          UNION {{exported.suffix[l].body.operations[j] :
                    j \in DOMAIN exported.suffix[l].body.operations} :
                   l \in DOMAIN exported.suffix}
    <3>2. (\E o \in operations : o.kind = "Assert" /\ o.key \in Identifiers)
            => "minting" \in Handed
      BY <1>4 DEF HandedOver
    <3>3. digest[n].operations[i] \in operations
      BY <1>1, <3>1
    <3> HIDE DEF operations
    <3>4. QED  BY <2>1, <3>2, <3>3
  <2>2. QED  BY <2>1
<1>10. ASSUME NEW n \in DOMAIN digest, NEW i \in DOMAIN digest[n].operations,
              digest[n].operations[i].identity.table \in IdentifiedTables
       PROVE  /\ digest[n].operations[i].key \in Identifiers
              /\ digest[n].operations[i].key
                   < source.counters[digest[n].operations[i].identity.table]
  <2>1. PICK m \in 1 .. n : \E j \in DOMAIN digest[m].operations :
          Gives(digest[m].operations[j], digest[n].operations[i])
    BY <1>5, <1>10 DEF Given
  <2>2. PICK j \in DOMAIN digest[m].operations :
          Gives(digest[m].operations[j], digest[n].operations[i])
    BY <2>1
  <2>3. m \in 1 .. size
    BY <1>6, <2>1
  <2>4. PICK o : o = digest[m].operations[j]
    OBVIOUS
  <2>5. /\ o.kind = "Assert" /\ o.identity.table = digest[n].operations[i].identity.table
        /\ o.key = digest[n].operations[i].key
    BY <2>2, <2>4 DEF Gives
  <2>6. o.key \in Identifiers
    BY <1>5, <1>10, <2>5 DEF Given
  <2>7. m <= point
    BY <1>6, <1>7, <1>9, <2>3, <2>4, <2>5, <2>6
  <2>8. m \in DOMAIN source.digest /\ source.digest[m] = digest[m]
    BY <1>7, <2>3, <2>7
  <2>9. o.key < source.counters[o.identity.table]
    BY <1>5, <1>10, <2>4, <2>5, <2>8 DEF Counted
  <2>10. QED  BY <2>5, <2>6, <2>9
<1>11. Counted(head', identifiers')
  BY <1>2, <1>3, <1>4, <1>10 DEF Counted
<1>12. \A t \in IdentifiedTables : catalog'[t] = Absent => identifiers'[t] = 0
  <2> SUFFICES ASSUME NEW t \in IdentifiedTables, catalog'[t] = Absent
               PROVE  source.counters[t] = 0
    BY <1>4
  <2>1. \A i \in source.families : i.table # t
    <3>1. t \in Tables /\ Absent \notin Identities
      BY FamilyAssumption
    <3>2. SUFFICES ASSUME \E identity \in source.families : identity.table = t
                   PROVE  FALSE
      OBVIOUS
    <3>3. catalog'[t] \in source.families
      BY <1>4, <3>1, <3>2
    <3>4. QED  BY <1>1, <3>1, <3>3
  <2>2. QED  BY <1>5, <2>1 DEF Uncounted
<1>13. ExportedHead' = ExportedHead
  BY <1>4 DEF ExportedHead
<1>14. CheckpointCounted(checkpoint)' /\ CheckpointCounted(exported.checkpoint)'
  BY <1>1, <1>4 DEF CountersKept
<1>15. Given(head)' /\ Given(ExportedHead)'
  BY <1>2, <1>3, <1>5, <1>13
<1>16. QED  BY <1>11, <1>12, <1>14, <1>15 DEF CountersKept

LEMMA CountersInit == Init => CountersKept
<1> SUFFICES ASSUME Init
             PROVE  CountersKept
  OBVIOUS
<1>1. /\ identifiers = NoCounters /\ head = <<>> /\ ExportedHead = <<>>
      /\ checkpoint = NoCheckpoint /\ exported.checkpoint = NoCheckpoint
  BY DEF Init, NoDigest, NoExport, ExportedHead, NoCheckpoint
<1>2. \A t \in IdentifiedTables : NoCounters[t] = 0
  BY FamilyAssumption DEF NoCounters
<1>3. \A counters : Counted(<<>>, counters) /\ Given(<<>>)
  BY DEF Counted, Given
<1>4. CheckpointCounted(NoCheckpoint)
  BY <1>2, <1>3 DEF CheckpointCounted, Uncounted, NoCheckpoint, NoDigest
<1>5. QED  BY <1>1, <1>2, <1>3, <1>4 DEF CountersKept

LEMMA CountersNext ==
  ASSUME OneTablePerVersion, OneEvolution, "empty" \notin Handed, "reshaped" \notin Handed,
         "minting" \notin Handed, Typed, Chained, Told, CountersKept, [Next]_vars
  PROVE  CountersKept'
<1>1. TypeOK /\ Process /\ MemoryTold
  BY DEF Typed, Told
<1>2. CASE \/ UNCHANGED vars
           \/ (\E n \in DOMAIN Components : Install(n)) \/ Open \/ Exit \/ Retry \/ Crash
           \/ RebuildFromLog
  <2>1. UNCHANGED <<head, identifiers, catalog, exported, checkpoint>>
    BY <1>2 DEF vars, Install, Open, Exit, Retry, Crash, Gone, Fault, RebuildFromLog,
                diskVars, outerVars
  <2>2. QED  BY <2>1, CountersStay
<1>3. CASE \E d \in Components[installed] : Register(d)
  BY <1>3, RegisterCounted
<1>4. CASE Write
  BY <1>4, WriteCounted
<1>5. CASE Checkpoint \/ Tick \/ Maintain
  <2>1. UNCHANGED <<head, identifiers, catalog, exported>>
    BY <1>5 DEF Checkpoint, TakeCheckpoint, Tick, Maintain, MaintainWithinBudget,
                MaintainRefused, MaintainCheckpoint, MaintainFails, Compact, Fault,
                diskVars, outerVars
  <2>2. checkpoint' = checkpoint \/ TakeCheckpoint
    BY <1>5 DEF Checkpoint, Tick, Maintain, MaintainWithinBudget, MaintainRefused,
                MaintainCheckpoint, MaintainFails, Compact, diskVars
  <2>3. (pc # "closed" /\ granted = Declared) \/ pc \in {"maintain", "compact"}
    BY <1>5 DEF Checkpoint, Tick, Serving, Maintain, MaintainWithinBudget, MaintainRefused,
                MaintainCheckpoint, MaintainFails, Compact
  <2>4. memory = catalog
    BY <1>1, <2>3, NoneStale
  <2>5. TakeCheckpoint => CheckpointCounted(checkpoint)'
    BY <1>1, <2>4, TakeCheckpointCounted
  <2>6. QED  BY <2>1, <2>2, <2>5, CountersStay
<1>6. CASE ExportCheckpoint \/ ExportSuffix
  <2>1. /\ ExportedHead' \in Digests /\ Extends(head, ExportedHead')
        /\ exported'.checkpoint \in {checkpoint, exported.checkpoint}
        /\ UNCHANGED <<head, identifiers, catalog, checkpoint>>
    BY <1>1, <1>6, ExportedIsPrefix DEF diskVars
  <2>2. head \in Digests /\ Given(head)
    BY <1>1 DEF TypeOK, CountersKept
  <2>3. Given(ExportedHead')
    BY <2>1, <2>2, GivenPrefix
  <2>4. CheckpointCounted(exported'.checkpoint)
    BY <2>1 DEF CountersKept
  <2>5. QED  BY <2>1, <2>3, <2>4 DEF CountersKept, CheckpointCounted
<1>7. CASE Lose
  <2>1. /\ head' = <<>> /\ identifiers' = NoCounters /\ checkpoint' = NoCheckpoint
        /\ UNCHANGED exported
    BY <1>7 DEF Lose, NoDigest
  <2>2. \A t \in IdentifiedTables : NoCounters[t] = 0
    BY FamilyAssumption DEF NoCounters
  <2>3. \A counters : Counted(<<>>, counters) /\ Given(<<>>)
    BY DEF Counted, Given
  <2>4. CheckpointCounted(NoCheckpoint)
    BY <2>2, <2>3 DEF CheckpointCounted, Uncounted, NoCheckpoint, NoDigest
  <2>5. ExportedHead' = ExportedHead
    BY <2>1 DEF ExportedHead
  <2>6. QED  BY <2>1, <2>2, <2>3, <2>4, <2>5 DEF CountersKept, CheckpointCounted
<1>8. CASE Import
  BY <1>8, ImportCounted
<1>9. QED  BY <1>2, <1>3, <1>4, <1>5, <1>6, <1>7, <1>8 DEF Next

-----------------------------------------------------------------------------
(* The theorem about the counters *)

LEMMA AlwaysCounted ==
  ASSUME OrderlyLifetime, "minting" \notin Handed
  PROVE  Spec => [](Typed /\ Chained /\ Told /\ CountersKept)
<1>1. Init => Typed /\ Chained /\ Told /\ CountersKept
  BY TypedInit, ChainedInit, ToldInit, CountersInit
<1>2. Typed /\ Chained /\ Told /\ CountersKept /\ [Next]_vars
        => (Typed /\ Chained /\ Told /\ CountersKept)'
  BY TypedNext, ChainedNext, ToldNext, CountersNext DEF OrderlyLifetime
<1>3. QED  BY <1>1, <1>2, PTL DEF Spec

(* The counter of an identified table is past every identifier its history   *)
(* has given out, also where that history was restored: the checkpoint brings *)
(* the counters along, and a suffix that gives out identifiers itself is       *)
(* excepted (as the run Restored shows).                                      *)
THEOREM CountersStayAhead ==
  ASSUME OrderlyLifetime, "minting" \notin Handed
  PROVE  Spec => []CountersAhead
<1>1. CountersKept => CountersAhead
  BY DEF CountersKept, Counted, CountersAhead
<1>2. QED  BY <1>1, AlwaysCounted, PTL

-----------------------------------------------------------------------------
(* What the operations of an entry say *)

Sayings == [Tables -> [RecordKeys -> Data \cup {Absent}]]

OnRecord(operation, t, k) == operation.identity.table = t /\ operation.key = k

SayOne(said, operation) ==
  [said EXCEPT ![operation.identity.table][operation.key] = DatumOf(operation.payload)]

\* What is said after each of some operations.
SaidAlong(said, operations, size) ==
  LET after[i \in 0 .. size] ==
        IF i = 0 THEN said ELSE SayOne(after[i - 1], operations[i])
  IN  after

LEMMA DatumOfType ==
  ASSUME NEW record \in Records \cup {Absent}
  PROVE  /\ DatumOf(record) \in Data \cup {Absent}
         /\ DatumOf(record) = Absent <=> record = Absent
<1>1. CASE record = Absent
  BY <1>1 DEF DatumOf
<1>2. CASE record # Absent
  <2>1. record.datum \in Data /\ DatumOf(record) = record.datum
    BY <1>2 DEF DatumOf, Records
  <2>2. QED  BY <1>2, <2>1, FamilyAssumption
<1>3. QED  BY <1>1, <1>2

LEMMA SayOneType ==
  ASSUME NEW said \in Sayings, NEW operation \in Operations
  PROVE  /\ SayOne(said, operation) \in Sayings
         /\ \A t \in Tables, k \in RecordKeys : SayOne(said, operation)[t][k] =
              IF OnRecord(operation, t, k) THEN DatumOf(operation.payload) ELSE said[t][k]
<1>1. PICK u \in Tables, l \in RecordKeys, datum \in Data \cup {Absent} :
        u = operation.identity.table /\ l = operation.key /\ datum = DatumOf(operation.payload)
  BY OperationFields, DatumOfType
<1>2. SayOne(said, operation) = [said EXCEPT ![u][l] = datum]
  BY <1>1 DEF SayOne
<1>3. [said EXCEPT ![u][l] = datum] \in Sayings
  BY DEF Sayings
<1>4. \A t \in Tables, k \in RecordKeys : [said EXCEPT ![u][l] = datum][t][k] =
        IF u = t /\ l = k THEN datum ELSE said[t][k]
  BY DEF Sayings
<1>5. QED  BY <1>1, <1>2, <1>3, <1>4 DEF OnRecord

Runs(f, said, operations, size) ==
  /\ f \in [0 .. size -> Sayings]
  /\ f[0] = said /\ \A n \in 1 .. size : f[n] = SayOne(f[n - 1], operations[n])

(* There is such a run. *)
LEMMA SaidExists ==
  ASSUME NEW said \in Sayings, NEW size \in Nat, NEW operations,
         \A n \in 1 .. size : operations[n] \in Operations
  PROVE  \E f : Runs(f, said, operations, size)
<1> DEFINE step == [n \in 1 .. size |-> [s \in Sayings |-> SayOne(s, operations[n])]]
<1>1. step \in [1 .. size -> [Sayings -> Sayings]]
  BY SayOneType
<1>2. PICK f \in [0 .. size -> Sayings] :
        f[0] = said /\ \A n \in 1 .. size : f[n] = step[n][f[n - 1]]
  <2>1. said \in Sayings /\ size \in Nat
    OBVIOUS
  <2> HIDE DEF step
  <2>2. QED  BY ONLY <1>1, <2>1, Recursion
<1>3. \A n \in 1 .. size : f[n] = SayOne(f[n - 1], operations[n])
  <2>1. ASSUME NEW n \in 1 .. size
        PROVE  f[n] = SayOne(f[n - 1], operations[n])
    <3>1. n - 1 \in 0 .. size
      OBVIOUS
    <3>2. f[n - 1] \in Sayings
      BY <3>1
    <3>3. QED  BY <1>2, <3>2
  <2>2. QED  BY <2>1
<1>4. QED  BY <1>2, <1>3 DEF Runs

(* The recursion of SaidAlong. *)
LEMMA SaidAlongSteps ==
  ASSUME NEW said \in Sayings, NEW size \in Nat, NEW operations,
         \A n \in 1 .. size : operations[n] \in Operations
  PROVE  /\ SaidAlong(said, operations, size)[0] = said
         /\ \A n \in 1 .. size : SaidAlong(said, operations, size)[n] =
              SayOne(SaidAlong(said, operations, size)[n - 1], operations[n])
         /\ \A n \in 0 .. size : SaidAlong(said, operations, size)[n] \in Sayings
<1>3. PICK f : Runs(f, said, operations, size)
  BY SaidExists
<1> DEFINE After(g) == g = [n \in 0 .. size |-> IF n = 0 THEN said
                               ELSE SayOne(g[n - 1], operations[n])]
           g == CHOOSE x : After(x)
<1>6. After(f)
  <2>1. \A n \in 0 .. size : f[n] = IF n = 0 THEN said ELSE SayOne(f[n - 1], operations[n])
    BY <1>3 DEF Runs
  <2>2. QED  BY <1>3, <2>1 DEF Runs
<1>7. After(g)
  <2> HIDE DEF After
  <2>1. QED  BY <1>6
<1>8. SaidAlong(said, operations, size) = g
  BY DEF SaidAlong
<1> HIDE DEF g
<1>9. g[0] = said /\ \A n \in 1 .. size : g[n] = SayOne(g[n - 1], operations[n])
  BY <1>7
<1>10. \A n \in 0 .. size : g[n] \in Sayings
  <2> DEFINE S == {n \in Nat : n <= size => g[n] \in Sayings}
  <2>1. 0 \in S
    BY <1>9
  <2>2. ASSUME NEW n \in Nat, n < size, n \in S
        PROVE  n + 1 \in S
    <3>1. n + 1 \in 1 .. size /\ (n + 1) - 1 = n /\ g[n] \in Sayings
      BY <2>2
    <3>2. g[n + 1] = SayOne(g[n], operations[n + 1]) /\ operations[n + 1] \in Operations
      BY <1>9, <3>1
    <3>3. QED  BY <3>1, <3>2, SayOneType
  <2>3. \A n \in 0 .. size : n \in S
    <3> HIDE DEF S
    <3>1. QED  BY ONLY <2>1, <2>2, size \in Nat, UpTo
  <2>4. QED  BY <2>3
<1>11. QED  BY <1>8, <1>9, <1>10

(* What a key says after some operations: what it did if none is on it, else *)
(* what the last of these left.                                               *)
LEMMA SaidAlongAt ==
  ASSUME NEW said \in Sayings, NEW size \in Nat, NEW operations,
         \A n \in 1 .. size : operations[n] \in Operations,
         NEW t \in Tables, NEW k \in RecordKeys
  PROVE  /\ (\A i \in 1 .. size : ~OnRecord(operations[i], t, k)) =>
              SaidAlong(said, operations, size)[size][t][k] = said[t][k]
         /\ \A j \in 1 .. size :
              OnRecord(operations[j], t, k)
                /\ (\A i \in 1 .. size : i > j => ~OnRecord(operations[i], t, k)) =>
              SaidAlong(said, operations, size)[size][t][k] = DatumOf(operations[j].payload)
<1>1. PICK f \in [0 .. size -> Sayings] : 
        /\ \A n \in 0 .. size : f[n] = SaidAlong(said, operations, size)[n]
        /\ f[0] = said /\ \A n \in 1 .. size : f[n] = SayOne(f[n - 1], operations[n])
  <2> DEFINE f == [n \in 0 .. size |-> SaidAlong(said, operations, size)[n]]
  <2>1. f \in [0 .. size -> Sayings]
    BY SaidAlongSteps
  <2>2. f[0] = said /\ \A n \in 1 .. size : f[n] = SayOne(f[n - 1], operations[n])
    BY SaidAlongSteps
  <2>3. QED  BY <2>1, <2>2
<1>2. ASSUME NEW n \in Nat, n < size
      PROVE  f[n + 1][t][k] = IF OnRecord(operations[n + 1], t, k)
                                THEN DatumOf(operations[n + 1].payload) ELSE f[n][t][k]
  <2>1. n + 1 \in 1 .. size /\ (n + 1) - 1 = n /\ n \in 0 .. size
    BY <1>2
  <2>2. PICK operation \in Operations : operation = operations[n + 1]
    BY <2>1
  <2>3. PICK before \in Sayings : before = f[n]
    BY <1>1, <2>1
  <2>4. f[n + 1] = SayOne(before, operation)
    BY <1>1, <2>1, <2>2, <2>3
  <2>5. SayOne(before, operation)[t][k] =
          IF OnRecord(operation, t, k) THEN DatumOf(operation.payload) ELSE before[t][k]
    BY ONLY SayOneType, t \in Tables, k \in RecordKeys
  <2>6. QED  BY <2>2, <2>3, <2>4, <2>5
<1>3. ASSUME \A i \in 1 .. size : ~OnRecord(operations[i], t, k)
      PROVE  f[size][t][k] = said[t][k]
  <2> DEFINE S == {n \in Nat : n <= size => f[n][t][k] = said[t][k]}
  <2>1. 0 \in S
    BY <1>1
  <2>2. ASSUME NEW n \in Nat, n < size, n \in S
        PROVE  n + 1 \in S
    BY <1>2, <1>3, <2>2
  <2>3. \A n \in 0 .. size : n \in S
    <3> HIDE DEF S
    <3>1. QED  BY ONLY <2>1, <2>2, size \in Nat, UpTo
  <2>4. QED  BY <2>3
<1>4. ASSUME NEW j \in 1 .. size, OnRecord(operations[j], t, k),
             \A i \in 1 .. size : i > j => ~OnRecord(operations[i], t, k)
      PROVE  f[size][t][k] = DatumOf(operations[j].payload)
  <2> DEFINE S == {n \in Nat : n <= size /\ n >= j =>
                     f[n][t][k] = DatumOf(operations[j].payload)}
  <2>1. 0 \in S
    OBVIOUS
  <2>2. ASSUME NEW n \in Nat, n < size, n \in S
        PROVE  n + 1 \in S
    <3>1. CASE n + 1 = j
      <4>1. f[n + 1][t][k] = IF OnRecord(operations[n + 1], t, k)
                               THEN DatumOf(operations[n + 1].payload) ELSE f[n][t][k]
        BY <1>2, <2>2
      <4>2. f[n + 1][t][k] = DatumOf(operations[j].payload)
        BY ONLY <1>4, <3>1, <4>1
      <4>3. QED  BY <4>2
    <3>2. CASE n >= j
      BY <1>2, <1>4, <2>2, <3>2
    <3>3. CASE n + 1 < j
      BY <3>3
    <3>4. QED  BY <3>1, <3>2, <3>3
  <2>3. \A n \in 0 .. size : n \in S
    <3> HIDE DEF S
    <3>1. QED  BY ONLY <2>1, <2>2, size \in Nat, UpTo
  <2>4. QED  BY <2>3
<1>5. f[size] = SaidAlong(said, operations, size)[size]
  BY <1>1
<1>6. QED  BY <1>3, <1>4, <1>5

\* The same of the operations of an entry.
Spared(operations, t, k) ==
  \A i \in 1 .. Len(operations) : ~OnRecord(operations[i], t, k)

LastOn(operations, j, t, k) ==
  /\ j \in 1 .. Len(operations) /\ OnRecord(operations[j], t, k)
  /\ \A i \in 1 .. Len(operations) : i > j => ~OnRecord(operations[i], t, k)

LEMMA SayAt ==
  ASSUME NEW said \in Sayings, NEW operations \in Seq(Operations)
  PROVE  /\ Say(said, operations) \in Sayings
         /\ \A t \in Tables, k \in RecordKeys :
              /\ Spared(operations, t, k) => Say(said, operations)[t][k] = said[t][k]
              /\ \A j : LastOn(operations, j, t, k) =>
                   Say(said, operations)[t][k] = DatumOf(operations[j].payload)
<1>1. Say(said, operations) = SaidAlong(said, operations, Len(operations))[Len(operations)]
  BY Zenon DEF Say, SaidAlong, SayOne
<1>2. Len(operations) \in Nat /\ \A n \in 1 .. Len(operations) : operations[n] \in Operations
  BY LenProperties, ElementOfSeq
<1>3. ASSUME NEW size \in Nat, \A n \in 1 .. size : operations[n] \in Operations
      PROVE  SaidAlong(said, operations, size)[size] \in Sayings
  BY <1>3, SaidAlongSteps
<1>4. ASSUME NEW size \in Nat, \A n \in 1 .. size : operations[n] \in Operations,
             NEW t \in Tables, NEW k \in RecordKeys
      PROVE  /\ (\A i \in 1 .. size : ~OnRecord(operations[i], t, k)) =>
                  SaidAlong(said, operations, size)[size][t][k] = said[t][k]
             /\ \A j \in 1 .. size :
                  OnRecord(operations[j], t, k)
                    /\ (\A i \in 1 .. size : i > j => ~OnRecord(operations[i], t, k)) =>
                  SaidAlong(said, operations, size)[size][t][k]
                    = DatumOf(operations[j].payload)
  BY <1>4, SaidAlongAt
<1>5. QED  BY <1>1, <1>2, <1>3, <1>4 DEF Spared, LastOn

-----------------------------------------------------------------------------
(* What the entries of a history say *)

NothingSaid == [t \in Tables |-> [k \in RecordKeys |-> Absent]]

\* SaidAfter, as the function it is taken from.
SaidWhile(digest, size) ==
  LET said[n \in 0 .. size] ==
        IF n = 0 THEN NothingSaid ELSE Say(said[n - 1], digest[n].operations)
  IN  said

Tells(f, digest, size) ==
  /\ f \in [0 .. size -> Sayings]
  /\ f[0] = NothingSaid
  /\ \A n \in 1 .. size : f[n] = Say(f[n - 1], digest[n].operations)

LEMMA NothingSaidType == NothingSaid \in Sayings
  BY DEF NothingSaid, Sayings

(* The recursion of SaidWhile. *)
LEMMA TellsExists ==
  ASSUME NEW size \in Nat, NEW digest, Foldable(digest, size)
  PROVE  \E f : Tells(f, digest, size)
<1> DEFINE step == [n \in 1 .. size |-> [s \in Sayings |-> Say(s, digest[n].operations)]]
<1>1. step \in [1 .. size -> [Sayings -> Sayings]]
  BY SayAt DEF Foldable
<1>2. PICK f \in [0 .. size -> Sayings] :
        f[0] = NothingSaid /\ \A n \in 1 .. size : f[n] = step[n][f[n - 1]]
  <2>1. NothingSaid \in Sayings /\ size \in Nat
    BY NothingSaidType
  <2> HIDE DEF step
  <2>2. QED  BY ONLY <1>1, <2>1, Recursion
<1>3. ASSUME NEW n \in 1 .. size
      PROVE  f[n] = Say(f[n - 1], digest[n].operations)
  <2>1. n - 1 \in 0 .. size
    OBVIOUS
  <2>2. f[n - 1] \in Sayings
    BY <2>1
  <2>3. QED  BY <1>2, <2>2
<1>4. QED  BY <1>2, <1>3 DEF Tells

LEMMA SaidWhileTells ==
  ASSUME NEW size \in Nat, NEW digest, Foldable(digest, size)
  PROVE  Tells(SaidWhile(digest, size), digest, size)
<1>1. PICK f : Tells(f, digest, size)
  BY TellsExists
<1> DEFINE After(g) == g = [n \in 0 .. size |-> IF n = 0 THEN NothingSaid
                               ELSE Say(g[n - 1], digest[n].operations)]
           g == CHOOSE x : After(x)
<1>2. After(f)
  <2>1. \A n \in 0 .. size :
          f[n] = IF n = 0 THEN NothingSaid ELSE Say(f[n - 1], digest[n].operations)
    BY <1>1 DEF Tells
  <2>2. QED  BY <1>1, <2>1 DEF Tells
<1>3. After(g)
  <2> HIDE DEF After
  <2>1. QED  BY <1>2
<1>4. SaidWhile(digest, size) = g
  BY DEF SaidWhile
<1> HIDE DEF g
<1>5. /\ g = [n \in 0 .. size |-> g[n]] /\ g[0] = NothingSaid
      /\ \A n \in 1 .. size : g[n] = Say(g[n - 1], digest[n].operations)
  BY <1>3
<1>6. \A n \in 0 .. size : g[n] \in Sayings
  <2> DEFINE S == {n \in Nat : n <= size => g[n] \in Sayings}
  <2>1. 0 \in S
    BY <1>5, NothingSaidType
  <2>2. ASSUME NEW n \in Nat, n < size, n \in S
        PROVE  n + 1 \in S
    <3>1. n + 1 \in 1 .. size /\ (n + 1) - 1 = n /\ g[n] \in Sayings
      BY <2>2
    <3>2. PICK operations \in Seq(Operations) : operations = digest[n + 1].operations
      BY <3>1 DEF Foldable
    <3>3. g[n + 1] = Say(g[n], operations)
      BY <1>5, <3>1, <3>2
    <3>4. Say(g[n], operations) \in Sayings
      BY <3>1, SayAt
    <3>5. QED  BY <3>3, <3>4
  <2>3. \A n \in 0 .. size : n \in S
    <3> HIDE DEF S
    <3>1. QED  BY ONLY <2>1, <2>2, size \in Nat, UpTo
  <2>4. QED  BY <2>3
<1>7. QED  BY <1>4, <1>5, <1>6 DEF Tells

Alike(one, other, first, last) == \A n \in first .. last : one[n] = other[n]

(* Histories that begin alike say alike. *)
LEMMA TellsAgree ==
  ASSUME NEW one, NEW other, NEW m \in Nat, NEW size \in Nat, NEW length \in Nat,
         m <= size, m <= length, Alike(one, other, 1, m),
         NEW f, NEW g, Tells(f, one, size), Tells(g, other, length)
  PROVE  Alike(f, g, 0, m)
<1> DEFINE S == {n \in Nat : n <= m => f[n] = g[n]}
<1>1. 0 \in S
  BY DEF Tells
<1>2. ASSUME NEW n \in Nat, n < m, n \in S
      PROVE  n + 1 \in S
  <2>1. n + 1 \in 1 .. size /\ n + 1 \in 1 .. length /\ n + 1 \in 1 .. m /\ (n + 1) - 1 = n
        /\ f[n] = g[n]
    BY <1>2
  <2>2. /\ f[n + 1] = Say(f[n], one[n + 1].operations)
        /\ g[n + 1] = Say(g[n], other[n + 1].operations)
    BY <2>1 DEF Tells
  <2>3. QED  BY <2>1, <2>2 DEF Alike
<1>3. \A n \in 0 .. m : n \in S
  <2> HIDE DEF S
  <2>1. QED  BY ONLY <1>1, <1>2, m \in Nat, UpTo
<1>4. QED  BY <1>3 DEF Alike

-----------------------------------------------------------------------------
(* The abstract history that a digest stands for *)

\* The records at the end of it.
SaidOf(digest) == Logical!RecordsAfter(SaidAfter(digest))

\* f has what each of the entries says.
Recounts(f, digest, size) ==
  /\ size \in Nat /\ size = Len(digest)
  /\ Tells(f, digest, size)
  /\ SaidAfter(digest) \in Seq(Sayings) /\ Len(SaidAfter(digest)) = size
  /\ \A n \in 1 .. size : SaidAfter(digest)[n] = f[n]
  /\ SaidOf(digest) = f[size]

LEMMA SaidAfterRecounts ==
  ASSUME NEW digest \in Digests
  PROVE  \E size, f : Recounts(f, digest, size)
<1>1. PICK size \in Nat : size = Len(digest)
  BY LenProperties DEF Digests
<1>2. DOMAIN digest = 1 .. size
  BY <1>1, LenProperties DEF Digests
<1>3. Foldable(digest, size)
  <2>1. \A n \in 1 .. size : digest[n] \in Bodies
    BY <1>1, ElementOfSeq DEF Digests
  <2>2. QED  BY <2>1 DEF Foldable, Bodies
<1>4. PICK f : f = SaidWhile(digest, size)
  OBVIOUS
<1>5. Tells(f, digest, size)
  BY <1>3, <1>4, SaidWhileTells
<1>6. SaidAfter(digest) = [n \in DOMAIN digest |-> SaidWhile(digest, Len(digest))[n]]
  BY Zenon DEF SaidAfter, SaidWhile, NothingSaid
<1>7. SaidAfter(digest) = [n \in 1 .. size |-> f[n]]
  BY <1>1, <1>2, <1>4, <1>6
<1>8. /\ SaidAfter(digest) \in Seq(Sayings) /\ Len(SaidAfter(digest)) = size
      /\ \A n \in 1 .. size : SaidAfter(digest)[n] = f[n]
  <2>1. \A n \in 1 .. size : f[n] \in Sayings
    BY <1>5 DEF Tells
  <2>2. SaidAfter(digest) \in [1 .. size -> Sayings]
    BY <1>7, <2>1
  <2>3. SaidAfter(digest) \in Seq(Sayings)
    BY <2>2, SeqDef
  <2>4. Len(SaidAfter(digest)) = size
    BY <2>2, <2>3, LenProperties
  <2>5. QED  BY <1>7, <2>3, <2>4
<1>9. SaidOf(digest) = f[size]
  <2>1. CASE size = 0
    <3>1. SaidAfter(digest) = <<>>
      BY <1>8, <2>1, EmptySeq
    <3>2. SaidOf(digest) = Logical!NoRecords
      BY <3>1 DEF SaidOf, Logical!RecordsAfter
    <3>3. f[0] = NothingSaid
      BY <1>5 DEF Tells
    <3>4. QED  BY <2>1, <3>2, <3>3 DEF Logical!NoRecords, NothingSaid
  <2>2. CASE size # 0
    <3>1. SaidAfter(digest) # <<>>
      BY <1>8, <2>2
    <3>2. SaidOf(digest) = SaidAfter(digest)[size]
      BY <1>8, <3>1 DEF SaidOf, Logical!RecordsAfter
    <3>3. QED  BY <1>8, <2>2, <3>2
  <2>3. QED  BY <2>1, <2>2
<1>10. QED  BY <1>1, <1>5, <1>8, <1>9 DEF Recounts

(* What is said is typed. *)
LEMMA SaidOfType ==
  ASSUME NEW digest \in Digests
  PROVE  SaidOf(digest) \in Sayings
<1>1. PICK size, f : Recounts(f, digest, size)
  BY SaidAfterRecounts
<1>2. QED  BY <1>1 DEF Recounts, Tells

(* Before the first entry nothing is. *)
LEMMA SaidOfNothing ==
  SaidAfter(NoDigest) = <<>> /\ SaidOf(NoDigest) = NothingSaid
<1>1. NoDigest \in Digests /\ Len(NoDigest) = 0
  BY DEF NoDigest, Digests
<1>2. PICK size, f : Recounts(f, NoDigest, size)
  BY <1>1, SaidAfterRecounts
<1>3. size = 0 /\ SaidAfter(NoDigest) \in Seq(Sayings) /\ Len(SaidAfter(NoDigest)) = 0
      /\ SaidOf(NoDigest) = f[0] /\ f[0] = NothingSaid
  BY <1>1, <1>2 DEF Recounts, Tells
<1>4. QED  BY <1>3, EmptySeq

(* An earlier point of a history stands for an earlier point of what it tells. *)
LEMMA SaidOfPrefix ==
  ASSUME NEW digest \in Digests, NEW earlier \in Digests, Extends(digest, earlier)
  PROVE  \E n \in 0 .. Len(SaidAfter(digest)) :
           SaidAfter(earlier) = SubSeq(SaidAfter(digest), 1, n)
<1>1. PICK size, f : Recounts(f, digest, size)
  BY SaidAfterRecounts
<1>2. PICK m, g : Recounts(g, earlier, m)
  BY SaidAfterRecounts
<1>3. /\ size \in Nat /\ m \in Nat /\ m <= size /\ m \in 0 .. size
      /\ earlier = DigestAt(digest, m)
  BY <1>1, <1>2 DEF Recounts, Extends
<1>4. Alike(digest, earlier, 1, m)
  BY <1>1, <1>3, PrefixFacts DEF Recounts, Alike
<1>5. Alike(f, g, 0, m)
  <2>1. /\ size \in Nat /\ m \in Nat /\ m <= m
        /\ Tells(f, digest, size) /\ Tells(g, earlier, m)
    BY <1>1, <1>2 DEF Recounts
  <2>2. QED  BY ONLY <1>3, <1>4, <2>1, TellsAgree
<1>6. PICK long \in Seq(Sayings) :
        long = SaidAfter(digest) /\ Len(long) = size /\ \A n \in 1 .. size : long[n] = f[n]
  BY <1>1 DEF Recounts
<1>7. PICK short \in Seq(Sayings) :
        short = SaidAfter(earlier) /\ Len(short) = m /\ \A n \in 1 .. m : short[n] = g[n]
  BY <1>2 DEF Recounts
<1>8. \A n \in 1 .. m : n \in 1 .. size /\ n \in 0 .. m
  BY <1>3
<1>9. \A n \in 1 .. m : long[n] \in Sayings
  BY <1>6, <1>8, ElementOfSeq
<1>10. /\ SubSeq(long, 1, m) \in Seq(Sayings)
       /\ Len(SubSeq(long, 1, m)) = IF 1 <= m THEN m - 1 + 1 ELSE 0
       /\ \A i \in 1 .. m - 1 + 1 : SubSeq(long, 1, m)[i] = long[1 + i - 1]
  <2>1. 1 \in Int /\ m \in Int
    BY <1>3
  <2>2. QED  BY <1>9, <2>1, SubSeqProperties
<1>11. (IF 1 <= m THEN m - 1 + 1 ELSE 0) = m /\ m - 1 + 1 = m
       /\ \A i \in 1 .. m : 1 + i - 1 = i
  BY <1>3
<1>12. \A i \in 1 .. m : short[i] = SubSeq(long, 1, m)[i]
  BY <1>5, <1>6, <1>7, <1>8, <1>10, <1>11 DEF Alike
<1>13. short = SubSeq(long, 1, m)
  BY <1>7, <1>10, <1>11, <1>12, SeqEqual
<1>14. QED  BY <1>3, <1>6, <1>7, <1>13

(* A further entry adds what it says. *)
LEMMA SaidOfAppend ==
  ASSUME NEW digest \in Digests, NEW body \in Bodies
  PROVE  /\ SaidAfter(Append(digest, body))
              = Append(SaidAfter(digest), Say(SaidOf(digest), body.operations))
         /\ SaidOf(Append(digest, body)) = Say(SaidOf(digest), body.operations)
<1>1. PICK size, f : Recounts(f, digest, size)
  BY SaidAfterRecounts
<1>2. PICK longer \in Digests :
        /\ longer = Append(digest, body) /\ Len(longer) = size + 1
        /\ \A n \in 1 .. size : longer[n] = digest[n]
        /\ longer[size + 1] = body
  <2>1. size = Len(digest)
    BY <1>1 DEF Recounts
  <2>2. PICK longer : longer = Append(digest, body)
    OBVIOUS
  <2>3. /\ longer \in Digests /\ Len(longer) = Len(digest) + 1
        /\ \A n \in 1 .. Len(digest) : longer[n] = digest[n]
        /\ longer[Len(digest) + 1] = body
    BY <2>2, AppendDigest
  <2>4. QED  BY ONLY <2>1, <2>2, <2>3
<1>3. PICK length, g : Recounts(g, longer, length)
  BY SaidAfterRecounts
<1>4. /\ size \in Nat /\ length \in Nat /\ length = size + 1 /\ size <= length
      /\ Tells(f, digest, size) /\ Tells(g, longer, length)
      /\ \A n \in 1 .. length : n = length \/ n \in 1 .. size
  <2>1. /\ size \in Nat /\ length = size + 1
        /\ Tells(f, digest, size) /\ Tells(g, longer, length)
    BY <1>1, <1>2, <1>3 DEF Recounts
  <2>2. QED  BY <2>1
<1>5. Alike(f, g, 0, size)
  <2>1. Alike(digest, longer, 1, size)
    BY <1>2 DEF Alike
  <2>2. size <= size
    BY <1>4
  <2>3. QED  BY ONLY <1>4, <2>1, <2>2, TellsAgree
<1>6. g[length] = Say(f[size], body.operations)
  <2>1. length \in 1 .. length /\ length - 1 = size /\ size \in 0 .. size
    BY <1>4
  <2>2. g[length] = Say(g[size], longer[length].operations)
    BY <1>4, <2>1 DEF Tells
  <2>3. g[size] = f[size]
    BY <1>5, <2>1 DEF Alike
  <2>4. QED  BY <1>2, <1>4, <2>2, <2>3
<1>7. PICK short \in Seq(Sayings) :
        short = SaidAfter(digest) /\ Len(short) = size /\ \A n \in 1 .. size : short[n] = f[n]
  BY <1>1 DEF Recounts
<1>8. PICK long \in Seq(Sayings) :
        long = SaidAfter(longer) /\ Len(long) = length /\ \A n \in 1 .. length : long[n] = g[n]
  BY <1>3 DEF Recounts
<1>9. PICK last \in Sayings : last = g[length]
  BY <1>4 DEF Tells
<1>10. /\ Append(short, last) \in Seq(Sayings) /\ Len(Append(short, last)) = length
       /\ \A n \in 1 .. size : Append(short, last)[n] = short[n]
       /\ Append(short, last)[length] = last
  BY <1>4, <1>7, AppendProperties
<1>11. ASSUME NEW n \in 1 .. length
       PROVE  long[n] = Append(short, last)[n]
  <2>1. CASE n = length
    BY <1>8, <1>9, <1>10, <2>1
  <2>2. CASE n \in 1 .. size
    <3>1. n \in 0 .. size
      BY <1>4, <2>2
    <3>2. f[n] = g[n]
      BY <1>5, <3>1 DEF Alike
    <3>3. QED  BY <1>7, <1>8, <1>10, <2>2, <3>2
  <2>3. QED  BY ONLY <1>4, <2>1, <2>2
<1>12. long = Append(short, last)
  BY <1>8, <1>10, <1>11, SeqEqual
<1>13. SaidOf(digest) = f[size] /\ SaidOf(longer) = g[length]
  BY <1>1, <1>3 DEF Recounts
<1>14. QED  BY <1>2, <1>6, <1>7, <1>8, <1>9, <1>12, <1>13

(* Of a key that no operation of a history is on it never said anything. *)
LEMMA NeverSaid ==
  ASSUME NEW digest \in Digests, NEW t \in Tables, NEW k \in RecordKeys,
         \A n \in DOMAIN digest : \A i \in DOMAIN digest[n].operations :
           ~OnRecord(digest[n].operations[i], t, k)
  PROVE  \A n \in DOMAIN SaidAfter(digest) : SaidAfter(digest)[n][t][k] = Absent
<1>1. PICK size, f : Recounts(f, digest, size)
  BY SaidAfterRecounts
<1>2. /\ size \in Nat /\ Tells(f, digest, size) /\ DOMAIN SaidAfter(digest) = 1 .. size
      /\ DOMAIN digest = 1 .. size
      /\ \A n \in 1 .. size : SaidAfter(digest)[n] = f[n]
  BY <1>1, LenProperties DEF Recounts, Digests
<1> DEFINE S == {n \in Nat : n <= size => f[n][t][k] = Absent}
<1>3. 0 \in S
  BY <1>2 DEF Tells, NothingSaid
<1>4. ASSUME NEW n \in Nat, n < size, n \in S
      PROVE  n + 1 \in S
  <2>1. n + 1 \in 1 .. size /\ (n + 1) - 1 = n /\ n \in 0 .. size /\ f[n][t][k] = Absent
    BY <1>2, <1>4
  <2>2. PICK body \in Bodies : body = digest[n + 1]
    BY <1>2, <2>1, ElementOfSeq DEF Digests
  <2>3. PICK operations \in Seq(Operations) : operations = body.operations
    BY DEF Bodies
  <2>4. PICK said \in Sayings : said = f[n]
    BY <1>2, <2>1 DEF Tells
  <2>5. f[n + 1] = Say(said, operations)
    BY <1>2, <2>1, <2>2, <2>3, <2>4 DEF Tells
  <2>6. Spared(operations, t, k)
    <3>1. DOMAIN operations = 1 .. Len(operations)
      BY LenProperties
    <3>2. QED  BY <1>2, <2>1, <2>2, <2>3, <3>1 DEF Spared
  <2>7. Say(said, operations)[t][k] = said[t][k]
    BY <2>6, SayAt
  <2>8. QED  BY <2>1, <2>4, <2>5, <2>7
<1>5. \A n \in 0 .. size : n \in S
  <2> HIDE DEF S
  <2>1. QED  BY ONLY <1>2, <1>3, <1>4, UpTo
<1>6. QED  BY <1>2, <1>5

-----------------------------------------------------------------------------
(* What writes and evolutions say *)

\* The only operation is on a given key.
OneOperation(operations, t, k, payload) ==
  /\ Len(operations) = 1
  /\ operations[1].identity.table = t /\ operations[1].key = k
  /\ operations[1].payload = payload

(* It changes what that key says. *)
LEMMA OneSays ==
  ASSUME NEW said \in Sayings, NEW operations \in Seq(Operations),
         NEW t \in Tables, NEW k \in RecordKeys, NEW payload,
         OneOperation(operations, t, k, payload)
  PROVE  Say(said, operations) = [said EXCEPT ![t][k] = DatumOf(payload)]
<1> USE DEF OneOperation
<1>1. PICK later \in Sayings : later = Say(said, operations)
  BY SayAt
<1>2. PICK datum : datum = DatumOf(operations[1].payload)
  OBVIOUS
<1>3. 1 \in 1 .. Len(operations) /\ \A i \in 1 .. Len(operations) : i = 1
  OBVIOUS
<1>4. later[t][k] = datum
  <2>1. LastOn(operations, 1, t, k)
    BY <1>3 DEF LastOn, OnRecord
  <2>2. QED  BY <1>1, <1>2, <2>1, SayAt
<1>5. ASSUME NEW u \in Tables, NEW l \in RecordKeys, u # t \/ l # k
      PROVE  later[u][l] = said[u][l]
  <2>1. Spared(operations, u, l)
    BY <1>3, <1>5 DEF Spared, OnRecord
  <2>2. QED  BY <1>1, <2>1, SayAt
<1>6. datum \in Data \cup {Absent}
  BY <1>1, <1>4 DEF Sayings
<1>7. later = [said EXCEPT ![t][k] = datum]
  BY ONLY <1>4, <1>5, <1>6, later \in Sayings, said \in Sayings, t \in Tables,
          k \in RecordKeys DEF Sayings
<1>8. QED  BY <1>1, <1>2, <1>7

(* An evolution changes nothing of what its table says. *)
LEMMA EvolutionSays ==
  ASSUME NEW t \in Tables, rows \in Rows, IsFiniteSet(Carried(t)),
         NEW stored \in Identities, NEW evolved \in Identities,
         stored.table = t, evolved.table = t, NEW said \in Sayings,
         \A k \in RecordKeys : said[t][k] = DatumOf(rows[t][k])
  PROVE  Say(said, EvolutionOperations(t, stored, evolved)) = said
<1>1. PICK N \in Nat :
        \E keys \in [1 .. N -> Carried(t)], operations \in Seq(Operations) :
          InTwoRounds(t, stored, evolved, N, keys, operations)
  BY EvolutionInTwoRounds
<1>2. PICK keys \in [1 .. N -> Carried(t)], operations \in Seq(Operations) :
        /\ InTwoRounds(t, stored, evolved, N, keys, operations)
        /\ \A i, j \in 1 .. N : keys[i] = keys[j] => i = j
        /\ \A k \in Carried(t) : \E i \in 1 .. N : keys[i] = k
        /\ Len(operations) = N + N
        /\ operations = EvolutionOperations(t, stored, evolved)
        /\ \A i \in 1 .. N + N : i \in 1 .. N \/ \E j \in 1 .. N : i = N + j
  BY <1>1 DEF InTwoRounds
<1>3. ASSUME NEW i \in 1 .. N
      PROVE  /\ operations[i].identity.table = t /\ operations[i].key = keys[i]
             /\ operations[N + i].identity.table = t /\ operations[N + i].key = keys[i]
             /\ operations[N + i].payload = Converted(t, evolved.schema)[keys[i]]
             /\ keys[i] \in Carried(t) /\ N + i \in 1 .. N + N
  <2>1. /\ operations[i] = [kind |-> "Retract", identity |-> stored, key |-> keys[i],
                            payload |-> Absent]
        /\ operations[N + i] =
             [kind |-> "Assert", identity |-> evolved, key |-> keys[i],
              payload |-> Converted(t, evolved.schema)[keys[i]]]
    BY <1>2 DEF InTwoRounds
  <2>2. keys[i] \in Carried(t) /\ N + i \in 1 .. N + N
    BY <1>2
  <2>3. QED  BY <2>1, <2>2
<1>4. PICK later \in Sayings : later = Say(said, operations)
  BY <1>2, SayAt
<1>5. ASSUME NEW k \in Carried(t)
      PROVE  later[t][k] = said[t][k]
  <2>1. PICK i \in 1 .. N : keys[i] = k
    BY <1>2
  <2>2. ASSUME NEW j \in 1 .. N + N, j > N + i
        PROVE  ~OnRecord(operations[j], t, k)
    <3>1. j \notin 1 .. N
      BY <1>2, <2>2
    <3>2. PICK m \in 1 .. N : j = N + m
      BY <1>2, <3>1
    <3>3. m # i
      BY <1>2, <2>2, <3>2
    <3>4. keys[m] # k
      BY <1>2, <2>1, <3>3
    <3>5. operations[j].key = keys[m]
      BY <1>3, <3>2
    <3>6. QED  BY <3>4, <3>5 DEF OnRecord
  <2>3. k \in RecordKeys /\ N + i \in 1 .. N + N /\ OnRecord(operations[N + i], t, k)
    BY <1>3, <2>1 DEF OnRecord, Carried
  <2>4. later[t][k] = DatumOf(operations[N + i].payload)
    <3>1. LastOn(operations, N + i, t, k)
      BY <1>2, <2>2, <2>3 DEF LastOn
    <3>2. QED  BY <1>2, <1>4, <2>3, <3>1, SayAt
  <2>5. /\ operations[N + i].payload = Converted(t, evolved.schema)[k]
        /\ Converted(t, evolved.schema)[k]
             = [schema |-> evolved.schema, datum |-> rows[t][k].datum]
        /\ Converted(t, evolved.schema)[k] \in Records
    BY <1>3, <2>1, EvolutionOperationsType
  <2>6. DatumOf(operations[N + i].payload) = DatumOf(rows[t][k])
    BY <2>5, FamilyAssumption DEF DatumOf, Carried
  <2>7. QED  BY <2>3, <2>4, <2>6
<1>6. ASSUME NEW u \in Tables, NEW k \in RecordKeys, u # t \/ k \notin Carried(t)
      PROVE  later[u][k] = said[u][k]
  <2>1. ASSUME NEW i \in 1 .. N + N
        PROVE  ~OnRecord(operations[i], u, k)
    <3>1. CASE i \in 1 .. N
      BY <1>3, <1>6, <3>1 DEF OnRecord
    <3>2. CASE \E j \in 1 .. N : i = N + j
      BY <1>3, <1>6, <3>2 DEF OnRecord
    <3>3. QED  BY <1>2, <3>1, <3>2
  <2>2. Spared(operations, u, k)
    BY <1>2, <2>1 DEF Spared
  <2>3. QED  BY <1>2, <1>4, <2>2, SayAt
<1>7. \A u \in Tables, k \in RecordKeys : later[u][k] = said[u][k]
  BY <1>5, <1>6
<1>8. later = said
  BY ONLY <1>7, later \in Sayings, said \in Sayings DEF Sayings
<1>9. QED  BY <1>2, <1>4, <1>8

-----------------------------------------------------------------------------
(* The rows say what the history does *)

\* What rows say, in whatever shape.
Datums(r) == [t \in Tables |-> [k \in RecordKeys |-> DatumOf(r[t][k])]]

\* A digest is one of a store whose rows said what its history does.
Says(digest) ==
  \E families \in Catalogs, r \in Rows :
    /\ CatalogAtHome(families) /\ ShapesNamed(families, r)
    /\ Shown(ViewOf(digest), families, r)
    /\ SaidOf(digest) = Datums(r)

RecordsSaid ==
  /\ SaidOf(head) = Datums(rows)
  /\ Says(checkpoint.digest) /\ Says(exported.checkpoint.digest)
  /\ Says(ExportedHead)

LEMMA DatumsType ==
  ASSUME NEW r \in Rows
  PROVE  /\ Datums(r) \in Sayings
         /\ \A t \in Tables, k \in RecordKeys :
              /\ Datums(r)[t][k] = DatumOf(r[t][k])
              /\ Datums(r)[t][k] = Absent <=> r[t][k] = Absent
<1>1. \A t \in Tables, k \in RecordKeys : r[t][k] \in Records \cup {Absent}
  BY DEF Rows
<1>2. QED  BY <1>1, DatumOfType DEF Datums, Sayings

(* A view shows the rows of one store only. *)
LEMMA SameRows ==
  ASSUME OneTablePerVersion, NEW view,
         NEW families \in Catalogs, NEW r \in Rows, CatalogAtHome(families),
         ShapesNamed(families, r), Shown(view, families, r),
         NEW others \in Catalogs, NEW s \in Rows, CatalogAtHome(others),
         ShapesNamed(others, s), Shown(view, others, s),
         NEW t \in Tables, NEW k \in RecordKeys, r[t][k] # Absent
  PROVE  r[t][k] = s[t][k]
<1>1. families[t] # Absent /\ families[t] \in Identities
  BY DEF ShapesNamed, Catalogs
<1>2. AtHome(families[t]) /\ families[t].table = t
  BY <1>1 DEF CatalogAtHome
<1>3. /\ ViewKey(families[t], k) \in ViewKeys
      /\ <<ViewKey(families[t], k)[1], ViewKey(families[t], k)[2]>> = Version(families[t])
  BY <1>1 DEF ViewKey, ViewKeys, Version, Identities
<1>4. Lookup(view, ViewKey(families[t], k)) = r[t][k]
  BY <1>1 DEF Shown
<1>5. PICK u \in Tables : others[u] # Absent /\ Version(others[u]) = Version(families[t])
  BY <1>3, <1>4 DEF Shown
<1>6. AtHome(others[u]) /\ others[u].table = u
  BY <1>5 DEF CatalogAtHome
<1>7. others[u] = families[t] /\ u = t
  BY <1>2, <1>5, <1>6, HomeIsUnique
<1>8. Lookup(view, ViewKey(others[t], k)) = s[t][k]
  BY <1>5, <1>7 DEF Shown
<1>9. QED  BY <1>4, <1>7, <1>8

LEMMA SameDatums ==
  ASSUME OneTablePerVersion, NEW digest, Says(digest),
         NEW families \in Catalogs, NEW r \in Rows, CatalogAtHome(families),
         ShapesNamed(families, r), Shown(ViewOf(digest), families, r)
  PROVE  SaidOf(digest) = Datums(r)
<1>1. PICK others \in Catalogs, s \in Rows :
        /\ CatalogAtHome(others) /\ ShapesNamed(others, s)
        /\ Shown(ViewOf(digest), others, s) /\ SaidOf(digest) = Datums(s)
  BY DEF Says
<1>2. \A t \in Tables, k \in RecordKeys : r[t][k] # Absent => r[t][k] = s[t][k]
  BY <1>1, SameRows
<1>3. \A t \in Tables, k \in RecordKeys : s[t][k] # Absent => s[t][k] = r[t][k]
  BY <1>1, SameRows
<1>4. \A t \in Tables, k \in RecordKeys : s[t][k] = r[t][k]
  BY <1>2, <1>3
<1>5. QED  BY <1>1, <1>4 DEF Datums

(* The head is such a digest. *)
LEMMA HeadSays ==
  ASSUME TypeOK, RowsTold, SaidOf(head) = Datums(rows)
  PROVE  Says(head)
  BY DEF TypeOK, RowsTold, Says

(* As is a store's that has nothing. *)
LEMMA NothingSays ==
  Says(NoDigest) /\ SaidOf(NoDigest) = Datums(EmptyRows) /\ Datums(EmptyRows) = NothingSaid
<1>1. Datums(EmptyRows) = NothingSaid
  BY DEF Datums, EmptyRows, NothingSaid, DatumOf
<1>2. QED  BY <1>1, SaidOfNothing, NothingTold, NothingTyped, NothingAtHome DEF Says

-----------------------------------------------------------------------------
(* The steps keep what is said *)

\* A write changes what one record says.
LEMMA WriteSays ==
  ASSUME Typed, SaidOf(head) = Datums(rows), NEW t, NEW kind, NEW k \in RecordKeys,
         NEW payload \in Records \cup {Absent}, NEW body \in Bodies,
         OneEntry(t, kind, k, payload, body)
  PROVE  /\ Datums(rows)' = [Datums(rows) EXCEPT ![t][k] = DatumOf(payload)]
         /\ SaidOf(head)' = Datums(rows)'
         /\ SaidAfter(head)' = Append(SaidAfter(head), Datums(rows)')
<1>1. /\ t \in Tables /\ head' = Append(head, body)
      /\ rows' = [rows EXCEPT ![t][k] = payload]
      /\ memory[t] \in Identities /\ memory[t].table = t
      /\ rows \in Rows /\ head \in Digests
  BY DEF OneEntry, Typed, TypeOK
<1>2. PICK operations \in Seq(Operations) :
        operations = body.operations /\ OneOperation(operations, t, k, payload)
  <2>1. body.operations \in Seq(Operations)
    BY DEF Bodies
  <2>2. body.operations =
          <<[kind |-> kind, identity |-> memory[t], key |-> k, payload |-> payload]>>
    BY DEF OneEntry
  <2>3. PICK operation : operation =
          [kind |-> kind, identity |-> memory[t], key |-> k, payload |-> payload]
    OBVIOUS
  <2>4. operation.identity.table = t /\ operation.key = k /\ operation.payload = payload
    BY <1>1, <2>3
  <2>5. Len(<<operation>>) = 1 /\ <<operation>>[1] = operation
    OBVIOUS
  <2>6. QED  BY <2>1, <2>2, <2>3, <2>4, <2>5 DEF OneOperation
<1>3. DatumOf(payload) \in Data \cup {Absent} /\ Datums(rows) \in Sayings
  BY <1>1, DatumOfType, DatumsType
<1>4. Datums(rows)' = [Datums(rows) EXCEPT ![t][k] = DatumOf(payload)]
  <2>1. \A u \in Tables, l \in RecordKeys :
          rows'[u][l] = IF u = t /\ l = k THEN payload ELSE rows[u][l]
    BY <1>1 DEF Rows
  <2>2. \A u \in Tables, l \in RecordKeys :
          DatumOf(rows'[u][l]) = IF u = t /\ l = k THEN DatumOf(payload) ELSE DatumOf(rows[u][l])
    BY <2>1
  <2>3. PICK said \in Sayings : said = Datums(rows)
    BY <1>3
  <2>4. \A u \in Tables, l \in RecordKeys : said[u][l] = DatumOf(rows[u][l])
    BY <2>3, DatumsType, <1>1
  <2>5. PICK datum \in Data \cup {Absent} : datum = DatumOf(payload)
    BY <1>3
  <2>6. \A u \in Tables, l \in RecordKeys :
          [said EXCEPT ![t][k] = datum][u][l] = DatumOf(rows'[u][l])
    BY <1>1, <2>2, <2>4, <2>5 DEF Sayings
  <2>7. [said EXCEPT ![t][k] = datum]
          = [u \in Tables |-> [l \in RecordKeys |-> [said EXCEPT ![t][k] = datum][u][l]]]
    BY DEF Sayings
  <2>8. Datums(rows)' = [u \in Tables |-> [l \in RecordKeys |-> DatumOf(rows'[u][l])]]
    BY DEF Datums
  <2>9. QED  BY <2>3, <2>5, <2>6, <2>7, <2>8
<1>5. Say(SaidOf(head), operations) = [Datums(rows) EXCEPT ![t][k] = DatumOf(payload)]
  <2>1. PICK said \in Sayings : said = SaidOf(head) /\ said = Datums(rows)
    BY <1>3
  <2>2. Say(said, operations) = [said EXCEPT ![t][k] = DatumOf(payload)]
    <3>1. t \in Tables
      BY <1>1
    <3>2. QED
      BY ONLY <1>2, <3>1, said \in Sayings, operations \in Seq(Operations),
              k \in RecordKeys, OneSays
  <2>3. [said EXCEPT ![t][k] = DatumOf(payload)] = [Datums(rows) EXCEPT ![t][k] = DatumOf(payload)]
    BY ONLY <2>1, Zenon
  <2>4. QED  BY ONLY <2>1, <2>2, <2>3, Zenon
<1>6. /\ SaidAfter(Append(head, body)) = Append(SaidAfter(head), Say(SaidOf(head), operations))
      /\ SaidOf(Append(head, body)) = Say(SaidOf(head), operations)
  BY <1>1, <1>2, SaidOfAppend
<1>7. SaidAfter(head)' = SaidAfter(Append(head, body)) /\ SaidOf(head)' = SaidOf(Append(head, body))
  BY <1>1 DEF SaidAfter, SaidOf
<1>8. QED  BY <1>4, <1>5, <1>6, <1>7

-----------------------------------------------------------------------------
(* The actions of the abstract store *)

LEMMA ChangeStep ==
  ASSUME NEW t, NEW k, NEW datum,
         Datums(rows)[t][k] # Absent \/ datum # Absent,
         (t \in IdentifiedTables /\ Datums(rows)[t][k] = Absent) =>
           \A n \in DOMAIN SaidAfter(head) : SaidAfter(head)[n][t][k] = Absent,
         Datums(rows)' = [Datums(rows) EXCEPT ![t][k] = datum],
         SaidAfter(head)' = Append(SaidAfter(head), Datums(rows)'),
         ExportedHead' = ExportedHead
  PROVE  Logical!Change(t, k, datum)
  BY DEF Logical!Change, Datums, ExportedHead

LEMMA RewriteStep ==
  ASSUME Datums(rows)' = Datums(rows),
         SaidAfter(head)' = Append(SaidAfter(head), Datums(rows)),
         ExportedHead' = ExportedHead
  PROVE  Logical!Rewrite
  BY DEF Logical!Rewrite, Datums, ExportedHead

LEMMA ArchiveStep ==
  ASSUME rows' = rows, head' = head,
         \E n \in 0 .. Len(SaidAfter(head)) :
           SaidAfter(ExportedHead') = SubSeq(SaidAfter(head), 1, n)
  PROVE  Logical!Archive
  BY DEF Logical!Archive, ExportedHead

LEMMA LoseStep ==
  ASSUME Datums(rows)' = NothingSaid, SaidAfter(head)' = <<>>,
         ExportedHead' = ExportedHead
  PROVE  Logical!Lose
  BY DEF Logical!Lose, Logical!NoRecords, NothingSaid, Datums, ExportedHead

LEMMA RestoreStep ==
  ASSUME SaidAfter(head) = <<>>, head' = ExportedHead, ExportedHead' = ExportedHead,
         Datums(rows)' = SaidOf(ExportedHead)
  PROVE  Logical!Restore
  BY DEF Logical!Restore, SaidOf, Datums, ExportedHead

LEMMA QuietStep ==
  ASSUME rows' = rows, head' = head, ExportedHead' = ExportedHead
  PROVE  UNCHANGED Logical!vars
  BY DEF Logical!vars, ExportedHead

LEMMA InitStep ==
  ASSUME Init
  PROVE  Logical!Init
<1>1. Datums(rows) = NothingSaid /\ SaidAfter(head) = <<>>
  BY NothingSays, SaidOfNothing DEF Init
<1>2. SaidAfter(ExportedHead) = <<>>
  BY SaidOfNothing DEF Init, ExportedHead, NoExport, NoCheckpoint
<1>3. QED
  BY <1>1, <1>2 DEF Logical!Init, Logical!NoRecords, NothingSaid, Datums, ExportedHead

-----------------------------------------------------------------------------
(* The steps of the store are steps of the abstract store *)

-----------------------------------------------------------------------------
(* The steps of the store are steps of the abstract store, and keep the records said *)

\* What a step has to do.
Follows == [Logical!Next]_Logical!vars /\ RecordsSaid'

(* A step that leaves rows, history and archive alone, or takes a checkpoint *)
(* of the history.                                                            *)
LEMMA QuietFollows ==
  ASSUME RecordsSaid, TypeOK, RowsTold, UNCHANGED <<rows, head, exported>>,
         checkpoint' = checkpoint \/ checkpoint'.digest = head
  PROVE  Follows
<1>1. ExportedHead' = ExportedHead
  BY DEF ExportedHead
<1>2. Says(head)
  BY HeadSays DEF RecordsSaid
<1>3. Says(checkpoint'.digest)
  BY <1>2 DEF RecordsSaid
<1>4. SaidOf(head)' = SaidOf(head) /\ Datums(rows)' = Datums(rows)
  BY DEF Datums
<1>5. UNCHANGED Logical!vars
  BY <1>1, QuietStep
<1>6. RecordsSaid'
  BY <1>1, <1>3, <1>4 DEF RecordsSaid
<1>7. QED  BY <1>5, <1>6 DEF Follows

LEMMA WriteFollows ==
  ASSUME Typed, CountersKept, RecordsSaid, Write
  PROVE  Follows
<1>1. PICK t \in granted, kind \in {"Assert", "Mutate", "Retract"},
           k \in RecordKeys, payload \in Records \cup {Absent}, body \in Bodies :
        OneEntry(t, kind, k, payload, body)
  BY WriteIsOneEntry
<1>2. /\ t \in Tables /\ rows \in Rows /\ head \in Digests /\ identifiers \in [Tables -> Nat]
      /\ OneRecord(t, kind, k, payload)
  BY <1>1 DEF OneEntry, Typed, TypeOK
<1>3. PICK datum \in Data \cup {Absent} :
        datum = DatumOf(payload) /\ (datum = Absent <=> payload = Absent)
  BY DatumOfType
<1>4. /\ Datums(rows)' = [Datums(rows) EXCEPT ![t][k] = datum]
      /\ SaidOf(head)' = Datums(rows)'
      /\ SaidAfter(head)' = Append(SaidAfter(head), Datums(rows)')
  <2>1. /\ Datums(rows)' = [Datums(rows) EXCEPT ![t][k] = DatumOf(payload)]
        /\ SaidOf(head)' = Datums(rows)'
        /\ SaidAfter(head)' = Append(SaidAfter(head), Datums(rows)')
    BY <1>1, WriteSays DEF RecordsSaid
  <2>2. QED  BY ONLY <1>3, <2>1
<1>5. Datums(rows)[t][k] = Absent <=> rows[t][k] = Absent
  BY <1>2, DatumsType
<1>6. Datums(rows)[t][k] # Absent \/ datum # Absent
  BY <1>2, <1>3, <1>5 DEF OneRecord
<1>7. ASSUME t \in IdentifiedTables, Datums(rows)[t][k] = Absent
      PROVE  \A n \in DOMAIN SaidAfter(head) : SaidAfter(head)[n][t][k] = Absent
  <2>1. k = NextIdentifier(t)
    BY <1>2, <1>5, <1>7 DEF OneRecord
  <2>2. identifiers[t] \in Nat /\ k \in Nat /\ ~(k < identifiers[t])
    BY <1>2, <2>1 DEF NextIdentifier
  <2>3. ASSUME NEW n \in DOMAIN head, NEW i \in DOMAIN head[n].operations
        PROVE  ~OnRecord(head[n].operations[i], t, k)
    BY <1>7, <2>2 DEF CountersKept, Counted, OnRecord
  <2>4. QED  BY <1>2, <2>3, NeverSaid
<1>8. checkpoint' = checkpoint /\ exported' = exported
  BY <1>2 DEF OneRecord, Commit
<1>9. ExportedHead' = ExportedHead
  BY <1>8 DEF ExportedHead
<1>10. Logical!Change(t, k, datum)
  BY <1>4, <1>6, <1>7, <1>9, ChangeStep
<1>11. Logical!Next
  BY <1>2, <1>10 DEF Logical!Next
<1>12. RecordsSaid'
  BY <1>4, <1>8, <1>9 DEF RecordsSaid
<1>13. QED  BY <1>11, <1>12 DEF Follows

LEMMA EvolutionFollows ==
  ASSUME Typed, MemoryTold, RecordsSaid, NEW d \in Components[installed], EvolveRows(d)
  PROVE  Follows
<1>1. PICK t \in Tables, stored \in Identities, evolved \in Identities, body \in Bodies :
        EvolutionEntry(t, stored, evolved, body)
  BY EvolutionIsOneEntry
<1>2. /\ head' = Append(head, body)
      /\ body.operations = EvolutionOperations(t, stored, evolved)
      /\ stored = memory[t] /\ stored # Absent /\ evolved.table = t
      /\ rows' = [rows EXCEPT ![t] = Converted(t, evolved.schema)]
      /\ rows \in Rows /\ head \in Digests /\ IsFiniteSet(Carried(t))
  BY <1>1 DEF EvolutionEntry, Typed, TypeOK, CarriedFinite
<1>3. stored.table = t
  BY <1>2 DEF MemoryTold, CatalogAtHome
<1>4. PICK said \in Sayings : /\ said = SaidOf(head) /\ said = Datums(rows)
                             /\ \A k \in RecordKeys : said[t][k] = DatumOf(rows[t][k])
  BY <1>2, DatumsType DEF RecordsSaid
<1>5. Say(said, EvolutionOperations(t, stored, evolved)) = said
  BY <1>2, <1>3, <1>4, EvolutionSays
<1>6. SaidAfter(head)' = Append(SaidAfter(head), said) /\ SaidOf(head)' = said
  <2>1. /\ SaidAfter(Append(head, body))
             = Append(SaidAfter(head), Say(SaidOf(head), body.operations))
        /\ SaidOf(Append(head, body)) = Say(SaidOf(head), body.operations)
    BY <1>2, SaidOfAppend
  <2>2. SaidAfter(head)' = SaidAfter(Append(head, body))
        /\ SaidOf(head)' = SaidOf(Append(head, body))
    BY <1>2
  <2>3. QED  BY <1>2, <1>4, <1>5, <2>1, <2>2
<1>7. Datums(rows)' = Datums(rows)
  <2>1. ASSUME NEW u \in Tables, NEW k \in RecordKeys
        PROVE  DatumOf(rows'[u][k]) = DatumOf(rows[u][k])
    <3>1. CASE u # t
      BY <1>2, <3>1 DEF Rows
    <3>2. CASE u = t
      <4>1. rows'[t][k] = IF rows[t][k] = Absent THEN Absent
                          ELSE [schema |-> evolved.schema, datum |-> rows[t][k].datum]
        BY <1>2 DEF Rows, Converted
      <4>2. CASE rows[t][k] = Absent
        BY <3>2, <4>1, <4>2
      <4>3. CASE rows[t][k] # Absent
        <5>1. rows[t][k].datum \in Data
          BY <1>2, <4>3 DEF Rows, Records
        <5>2. [schema |-> evolved.schema, datum |-> rows[t][k].datum] \in Records
          BY <5>1 DEF Records, Identities
        <5>3. rows'[t][k] # Absent /\ rows'[t][k].datum = rows[t][k].datum
          BY <4>1, <4>3, <5>2, FamilyAssumption
        <5>4. QED  BY <3>2, <4>3, <5>3 DEF DatumOf
      <4>4. QED  BY <4>2, <4>3
    <3>3. QED  BY <3>1, <3>2
  <2>2. Datums(rows)' = [u \in Tables |-> [k \in RecordKeys |-> DatumOf(rows'[u][k])]]
    BY DEF Datums
  <2>3. QED  BY <2>1, <2>2 DEF Datums
<1>8. checkpoint' = checkpoint /\ exported' = exported
  BY DEF EvolveRows, outerVars
<1>9. ExportedHead' = ExportedHead
  BY <1>8 DEF ExportedHead
<1>10. Logical!Rewrite
  BY <1>4, <1>6, <1>7, <1>9, RewriteStep
<1>11. RecordsSaid'
  BY <1>4, <1>6, <1>7, <1>8, <1>9 DEF RecordsSaid
<1>12. QED  BY <1>10, <1>11 DEF Follows, Logical!Next

LEMMA RegisterFollows ==
  ASSUME Typed, Told, RecordsSaid, NEW d \in Components[installed], Register(d)
  PROVE  Follows
<1>1. TypeOK /\ Process /\ MemoryTold /\ RowsTold
  BY DEF Typed, Told
<1>2. UNCHANGED <<rows, head, exported, checkpoint>> \/ EvolveRows(d)
  BY <1>1, RegisterSplits
     DEF RegisterExisting, CatalogAlone, Fault, diskVars, outerVars
<1>3. CASE UNCHANGED <<rows, head, exported, checkpoint>>
  BY <1>1, <1>3, QuietFollows
<1>4. CASE EvolveRows(d)
  BY <1>1, <1>4, EvolutionFollows
<1>5. QED  BY <1>2, <1>3, <1>4

LEMMA MaintainFollows ==
  ASSUME OneEvolution, Typed, Chained, Told, RecordsSaid, Checkpoint \/ Tick \/ Maintain
  PROVE  Follows
<1>1. TypeOK /\ Process /\ RowsTold /\ StoreChained
  BY DEF Typed, Told, Chained
<1>2. UNCHANGED <<rows, head, exported>>
  BY DEF Checkpoint, TakeCheckpoint, Tick, Maintain, MaintainWithinBudget,
         MaintainRefused, MaintainCheckpoint, MaintainFails, Compact, Fault,
         diskVars, outerVars
<1>3. checkpoint' = checkpoint \/ TakeCheckpoint
  BY DEF Checkpoint, Tick, Maintain, MaintainWithinBudget, MaintainRefused,
         MaintainCheckpoint, MaintainFails, Compact, diskVars
<1>4. TakeCheckpoint => checkpoint'.digest = head
  BY <1>1, TakeCheckpointChained
<1>5. QED  BY <1>1, <1>2, <1>3, <1>4, QuietFollows

LEMMA ExportFollows ==
  ASSUME Typed, Chained, RowsTold, RecordsSaid, ExportCheckpoint \/ ExportSuffix
  PROVE  Follows
<1>1. TypeOK /\ head \in Digests
  BY DEF Typed, TypeOK
<1>2. /\ ExportedHead' \in Digests /\ Extends(head, ExportedHead')
      /\ exported'.checkpoint \in {checkpoint, exported.checkpoint}
      /\ UNCHANGED <<rows, head, checkpoint>>
  BY <1>1, ExportedIsPrefix DEF diskVars
<1>3. Logical!Archive
  BY <1>1, <1>2, SaidOfPrefix, ArchiveStep
<1>4. Says(head) /\ Says(checkpoint.digest) /\ Says(exported.checkpoint.digest)
  BY <1>1, HeadSays DEF RecordsSaid
<1>5. Says(ExportedHead')
  <2>1. ExportedHead' \in {head, checkpoint.digest, exported.checkpoint.digest}
    BY <1>1, ExportedIsPrefix
  <2>2. QED  BY <1>4, <2>1
<1>6. SaidOf(head)' = SaidOf(head) /\ Datums(rows)' = Datums(rows)
  BY <1>2 DEF Datums
<1>7. RecordsSaid'
  BY <1>2, <1>4, <1>5, <1>6 DEF RecordsSaid
<1>8. QED  BY <1>3, <1>7 DEF Follows, Logical!Next

LEMMA LoseFollows ==
  ASSUME RecordsSaid, Lose
  PROVE  Follows
<1>1. /\ rows' = EmptyRows /\ head' = NoDigest /\ checkpoint' = NoCheckpoint
      /\ exported' = exported
  BY DEF Lose
<1>2. ExportedHead' = ExportedHead
  BY <1>1 DEF ExportedHead
<1>3. /\ Datums(rows)' = NothingSaid /\ SaidAfter(head)' = <<>> /\ SaidOf(head)' = NothingSaid
  <2>1. Datums(rows)' = Datums(EmptyRows)
    BY <1>1 DEF Datums
  <2>2. QED  BY <1>1, <2>1, NothingSays, SaidOfNothing
<1>4. Logical!Lose
  BY <1>2, <1>3, LoseStep
<1>5. RecordsSaid'
  BY <1>1, <1>2, <1>3, NothingSays DEF RecordsSaid, NoCheckpoint
<1>6. QED  BY <1>4, <1>5 DEF Follows, Logical!Next

LEMMA ImportFollows ==
  ASSUME OneTablePerVersion, "empty" \notin Handed, Typed, Chained, RecordsSaid, Import,
         TypeOK', RowsTold'
  PROVE  Follows
<1>1. head' = ExportedHead /\ checkpoint' = exported.checkpoint /\ exported' = exported
  BY ImportChained DEF Typed, Chained, Import, outerVars
<1>2. ExportedHead' = ExportedHead
  BY <1>1 DEF ExportedHead
<1>3. SaidOf(ExportedHead) = Datums(rows)'
  <2>1. PICK digest : digest = ExportedHead
    OBVIOUS
  <2>2. PICK families \in Catalogs, r \in Rows : families = catalog' /\ r = rows'
    BY DEF TypeOK
  <2>3. CatalogAtHome(families) /\ ShapesNamed(families, r) /\ Shown(ViewOf(digest), families, r)
    BY <1>1, <2>1, <2>2 DEF RowsTold
  <2>4. Says(digest)
    BY <2>1 DEF RecordsSaid
  <2>5. SaidOf(digest) = Datums(r)
    BY <2>3, <2>4, SameDatums
  <2>6. Datums(rows)' = Datums(r)
    BY <2>2 DEF Datums
  <2>7. QED  BY <2>1, <2>5, <2>6
<1>4. SaidAfter(head) = <<>>
  <2>1. marker = 0 /\ marker = Len(head) /\ head \in Digests
    BY DEF Import, Fresh, Chained, StoreChained, Typed, TypeOK
  <2>2. head = NoDigest
    BY <2>1, EmptySeq DEF Digests, NoDigest
  <2>3. QED  BY <2>2, SaidOfNothing
<1>5. Logical!Restore
  BY <1>1, <1>2, <1>3, <1>4, RestoreStep
<1>6. SaidOf(head)' = SaidOf(ExportedHead)
  BY <1>1
<1>7. RecordsSaid'
  BY <1>1, <1>2, <1>3, <1>6 DEF RecordsSaid
<1>8. QED  BY <1>5, <1>7 DEF Follows, Logical!Next

-----------------------------------------------------------------------------
(* The refinement *)

LEMMA RecordsSaidInit == Init => RecordsSaid
<1> SUFFICES ASSUME Init
             PROVE  RecordsSaid
  OBVIOUS
<1>1. /\ head = NoDigest /\ rows = EmptyRows /\ checkpoint.digest = NoDigest
      /\ exported.checkpoint.digest = NoDigest /\ ExportedHead = NoDigest
  BY DEF Init, NoExport, NoCheckpoint, ExportedHead
<1>2. QED  BY <1>1, NothingSays DEF RecordsSaid

LEMMA NextFollows ==
  ASSUME OneTablePerVersion, OneEvolution, "empty" \notin Handed, "reshaped" \notin Handed,
         Typed, Chained, Told, CountersKept, RecordsSaid, [Next]_vars
  PROVE  Follows
<1>1. TypeOK /\ RowsTold /\ MemoryTold
  BY DEF Typed, Told
<1>2. CASE \/ UNCHANGED vars
           \/ (\E n \in DOMAIN Components : Install(n)) \/ Open \/ Exit \/ Retry \/ Crash
  <2>1. UNCHANGED <<rows, head, exported, checkpoint>>
    BY <1>2 DEF vars, Install, Open, Exit, Retry, Crash, Gone, Fault, diskVars, outerVars
  <2>2. QED  BY <1>1, <2>1, QuietFollows
<1>3. CASE RebuildFromLog
  <2>1. UNCHANGED <<head, exported, checkpoint>>
    BY <1>3 DEF RebuildFromLog, outerVars
  <2>2. rows' = rows
    BY <1>3, RebuildKeeps DEF RebuildFromLog, RebuildReproduces, Typed, Chained, Told
  <2>3. QED  BY <1>1, <2>1, <2>2, QuietFollows
<1>4. CASE \E d \in Components[installed] : Register(d)
  BY <1>4, RegisterFollows
<1>5. CASE Write
  BY <1>5, WriteFollows
<1>6. CASE Checkpoint \/ Tick \/ Maintain
  BY <1>6, MaintainFollows
<1>7. CASE ExportCheckpoint \/ ExportSuffix
  BY <1>1, <1>7, ExportFollows
<1>8. CASE Lose
  BY <1>8, LoseFollows
<1>9. CASE Import
  <2>1. Typed' /\ Told'
    BY TypedNext, ToldNext
  <2>2. TypeOK' /\ RowsTold'
    BY <2>1 DEF Typed, Told
  <2>3. QED  BY <1>9, <2>2, ImportFollows
<1>10. QED  BY <1>2, <1>3, <1>4, <1>5, <1>6, <1>7, <1>8, <1>9 DEF Next

(* To its component the store is one of records that change one at a time:   *)
(* evolution, checkpoint, compaction, rebuild and crash change no record, an  *)
(* identifier is given out once, and an import brings back exactly the        *)
(* records and the history that were exported.                                *)
THEOREM ImplementsRecordStore ==
  ASSUME OrderlyLifetime, "minting" \notin Handed
  PROVE  Spec => ImplementsRecords
<1>1. Init => Logical!Init /\ RecordsSaid
  BY InitStep, RecordsSaidInit
<1>2. Typed /\ Chained /\ Told /\ CountersKept /\ RecordsSaid /\ [Next]_vars
        => [Logical!Next]_Logical!vars /\ RecordsSaid'
  BY NextFollows DEF OrderlyLifetime, Follows
<1>3. QED  BY <1>1, <1>2, AlwaysCounted, PTL DEF Spec, ImplementsRecords, Logical!Spec

=============================================================================
