-------------------------- MODULE FileService_proofs --------------------------
(****************************************************************************)
(* Files under any number of requests, deaths, jobs and retries. First the  *)
(* API beside the outbox, then the worker beside the outbox, then the two   *)
(* of them together: each does what the other one's module assumed.         *)
(****************************************************************************)
EXTENDS FileService, FiniteSetTheorems, TLAPS

-----------------------------------------------------------------------------
(* The API *)

Busy == {"put", "sum", "insert", "compensate"}
Some == CHOOSE o \in Object : TRUE

Shape ==
  /\ used \subseteq Object /\ row \subseteq used /\ stored \subseteq used
  /\ unanswered \subseteq used /\ leaked \subseteq used
  /\ cleanup \in [Object -> {"none", "pending", "done"}]
  /\ step \in [FileHandler -> Busy \cup {"idle", "remove"}]
  /\ key \in [FileHandler -> Object \cup {Some}]

(* An upload's key is its own until it ends, since keys are generated fresh.     *)
KeysExclusive ==
  /\ \A h \in FileHandler : step[h] # "idle" => key[h] \in used
  /\ \A g, h \in FileHandler : step[g] \in Busy /\ step[h] \in Busy /\ key[g] = key[h] => g = h

(* Before its insert an upload has no row and nothing was enlisted, and from the *)
(* answer of the store on it has its object. A row of an upload that compensates *)
(* was committed without an answer.                                              *)
UploadsOwnTheirObject ==
  \A h \in FileHandler :
    /\ step[h] \in {"put", "sum", "insert"} => key[h] \notin row /\ cleanup[key[h]] = "none"
    /\ step[h] \in {"sum", "insert"} => key[h] \in stored
    /\ step[h] = "compensate" /\ key[h] \in row => key[h] \in unanswered

(* A key is enlisted by the transaction that deletes its row, and keys do not    *)
(* come back.                                                                    *)
EnlistedHaveNoRow == \A o \in Object : cleanup[o] # "none" => o \in used /\ o \notin row

FilesInv ==
  /\ Shape /\ KeysExclusive /\ UploadsOwnTheirObject /\ EnlistedHaveNoRow
  /\ ListedHasContent /\ NothingForgotten

LEMMA FilesInit == Files!Init => FilesInv
BY DEF Files!Init, FilesInv, Shape, Busy, Some, KeysExclusive, UploadsOwnTheirObject,
       EnlistedHaveNoRow, ListedHasContent, NothingForgotten,
       Files!ListedHasContent, Files!NothingForgotten

LEMMA AcceptInv ==
  ASSUME FilesInv, NEW h \in FileHandler, Files!Accept(h)
  PROVE  FilesInv'
<1> DEFINE o == CHOOSE fresh \in Object : fresh \notin used
<1> USE DEF FilesInv, Shape, Busy
<1>1. /\ step[h] = "idle" /\ o \in Object \ used
      /\ key' = [key EXCEPT ![h] = o] /\ used' = used \cup {o}
      /\ step' = [step EXCEPT ![h] = "put"]
      /\ UNCHANGED <<stored, cleanup, row, leaked, unanswered>>
  BY DEF Files!Accept, Files!Goto
<1> HIDE DEF o
<1>2. Shape' /\ KeysExclusive'
  BY <1>1 DEF KeysExclusive
<1>3. UploadsOwnTheirObject' /\ EnlistedHaveNoRow'
  BY <1>1 DEF UploadsOwnTheirObject, EnlistedHaveNoRow
<1>4. ListedHasContent'
  BY <1>1 DEF ListedHasContent, Files!ListedHasContent
<1>5. Files!Uploading \subseteq Files!Uploading'
  BY <1>1 DEF Files!Uploading, Files!Labels
<1>6. NothingForgotten'
  BY <1>1, <1>5 DEF NothingForgotten, Files!NothingForgotten
<1> QED BY <1>2, <1>3, <1>4, <1>6

(* What an upload leaves behind when it takes a step: only its own key may stop   *)
(* being uploaded.                                                                *)
LEMMA OthersUpload ==
  ASSUME NEW h \in FileHandler, NEW label, step \in [FileHandler -> Busy \cup {"idle", "remove"}],
         Files!Goto(h, label), key' = key
  PROVE  /\ Files!Uploading \subseteq Files!Uploading' \cup {key[h]}
         /\ label \in Busy => key[h] \in Files!Uploading'
         /\ step[h] \notin Busy => Files!Uploading \subseteq Files!Uploading'
BY DEF Files!Goto, Files!Uploading, Files!Labels, Busy

LEMMA PutInv ==
  ASSUME FilesInv, NEW h \in FileHandler, Files!Put(h)
  PROVE  FilesInv'
<1> USE DEF FilesInv, Shape, Busy
<1>1. /\ step[h] = "put" /\ key[h] \in used
      /\ stored' \in {stored, stored \cup {key[h]}}
      /\ \/ Files!Goto(h, "sum") /\ key[h] \in stored'
         \/ Files!Goto(h, "compensate")
      /\ UNCHANGED <<cleanup, row, visible, key, total, used, leaked, unanswered>>
  BY DEF Files!Put, KeysExclusive
<1>2. Shape' /\ KeysExclusive'
  BY <1>1 DEF KeysExclusive, Files!Goto
<1>3. UploadsOwnTheirObject'
  BY <1>1 DEF UploadsOwnTheirObject, Files!Goto
<1>4. EnlistedHaveNoRow' /\ ListedHasContent'
  BY <1>1 DEF EnlistedHaveNoRow, ListedHasContent, Files!ListedHasContent
<1>5. key[h] \in Files!Uploading' /\ Files!Uploading \subseteq Files!Uploading'
  BY <1>1, OthersUpload
<1>6. NothingForgotten'
  BY <1>1, <1>5 DEF NothingForgotten, Files!NothingForgotten
<1> QED BY <1>2, <1>3, <1>4, <1>6

LEMMA SumInv ==
  ASSUME FilesInv, NEW h \in FileHandler, Files!Sum(h)
  PROVE  FilesInv'
<1> USE DEF FilesInv, Shape, Busy
<1>1. /\ step[h] = "sum" /\ key[h] \in used
      /\ Files!Goto(h, "insert") \/ Files!Goto(h, "compensate")
      /\ UNCHANGED <<stored, cleanup, row, visible, key, used, leaked, unanswered>>
  BY DEF Files!Sum, KeysExclusive
<1>2. Shape' /\ KeysExclusive'
  BY <1>1 DEF KeysExclusive, Files!Goto
<1>3. UploadsOwnTheirObject'
  BY <1>1 DEF UploadsOwnTheirObject, Files!Goto
<1>4. EnlistedHaveNoRow' /\ ListedHasContent'
  BY <1>1 DEF EnlistedHaveNoRow, ListedHasContent, Files!ListedHasContent
<1>5. Files!Uploading \subseteq Files!Uploading'
  BY <1>1, OthersUpload
<1>6. NothingForgotten'
  BY <1>1, <1>5 DEF NothingForgotten, Files!NothingForgotten
<1> QED BY <1>2, <1>3, <1>4, <1>6

LEMMA InsertInv ==
  ASSUME FilesInv, NEW h \in FileHandler, Files!Insert(h)
  PROVE  FilesInv'
<1> USE DEF FilesInv, Shape, Busy
<1>1. /\ step[h] = "insert" /\ key[h] \in used /\ key[h] \in stored
      /\ cleanup[key[h]] = "none"
      /\ UNCHANGED <<stored, cleanup, visible, key, total, used, leaked>>
  BY DEF Files!Insert, KeysExclusive, UploadsOwnTheirObject
<1>2. \/ row' = row \cup {key[h]} /\ Files!Goto(h, "idle") /\ unanswered' = unanswered
      \/ /\ row' = row \cup {key[h]} /\ Files!Goto(h, "compensate")
         /\ unanswered' = unanswered \cup {key[h]}
      \/ row' = row /\ Files!Goto(h, "compensate") /\ unanswered' = unanswered
  BY DEF Files!Insert
<1>3. Shape' /\ KeysExclusive'
  BY <1>1, <1>2 DEF KeysExclusive, Files!Goto
<1>4. UploadsOwnTheirObject'
  <2> SUFFICES ASSUME NEW g \in FileHandler
               PROVE  /\ step'[g] \in {"put", "sum", "insert"} =>
                            key[g] \notin row' /\ cleanup[key[g]] = "none"
                      /\ step'[g] \in {"sum", "insert"} => key[g] \in stored
                      /\ step'[g] = "compensate" /\ key[g] \in row' => key[g] \in unanswered'
    BY <1>1 DEF UploadsOwnTheirObject
  <2>1. CASE g = h
    BY <1>1, <1>2, <2>1 DEF UploadsOwnTheirObject, Files!Goto
  <2>2. CASE g # h
    <3>1. step'[g] = step[g]
      BY <1>2, <2>2 DEF Files!Goto
    <3>2. step[g] \in Busy => key[g] # key[h]
      BY <1>1, <2>2 DEF KeysExclusive
    <3> QED BY <1>2, <3>1, <3>2 DEF UploadsOwnTheirObject
  <2> QED BY <2>1, <2>2
<1>5. EnlistedHaveNoRow' /\ ListedHasContent'
  BY <1>1, <1>2 DEF EnlistedHaveNoRow, ListedHasContent, Files!ListedHasContent
<1>6. Files!Uploading \subseteq Files!Uploading' \cup {key[h]} /\ (key[h] \in row' \/ key[h] \in Files!Uploading')
  BY <1>1, <1>2, OthersUpload
<1>7. NothingForgotten'
  BY <1>1, <1>2, <1>6 DEF NothingForgotten, Files!NothingForgotten
<1> QED BY <1>3, <1>4, <1>5, <1>7

LEMMA CompensateInv ==
  ASSUME FilesInv, NEW h \in FileHandler, Files!Compensate(h)
  PROVE  FilesInv'
<1> USE DEF FilesInv, Shape, Busy
<1>1. /\ step[h] = "compensate" /\ key[h] \in used /\ Files!Goto(h, "idle")
      /\ key[h] \in row => key[h] \in unanswered
      /\ UNCHANGED <<cleanup, row, visible, key, total, used, unanswered>>
  BY DEF Files!Compensate, KeysExclusive, UploadsOwnTheirObject
<1>2. \/ stored' = stored \ {key[h]} /\ leaked' = leaked
      \/ stored' = stored /\ leaked' = leaked \cup {key[h]}
  BY DEF Files!Compensate
<1>3. Shape' /\ KeysExclusive'
  BY <1>1, <1>2 DEF KeysExclusive, Files!Goto
<1>4. UploadsOwnTheirObject'
  BY <1>1, <1>2 DEF UploadsOwnTheirObject, KeysExclusive, Files!Goto
<1>5. EnlistedHaveNoRow' /\ ListedHasContent'
  BY <1>1, <1>2 DEF EnlistedHaveNoRow, ListedHasContent, Files!ListedHasContent
<1>6. Files!Uploading \subseteq Files!Uploading' \cup {key[h]}
  BY <1>1, OthersUpload
<1>7. NothingForgotten'
  BY <1>1, <1>2, <1>6 DEF NothingForgotten, Files!NothingForgotten
<1> QED BY <1>3, <1>4, <1>5, <1>7

LEMMA DieInv ==
  ASSUME FilesInv, NEW h \in FileHandler, Files!Die(h)
  PROVE  FilesInv'
<1> USE DEF FilesInv, Shape, Busy
<1>1. /\ step[h] # "idle" /\ key[h] \in used /\ Files!Goto(h, "idle")
      /\ leaked' = IF step[h] = "remove" THEN leaked ELSE leaked \cup {key[h]}
      /\ \/ stored' = stored
         \/ step[h] = "put" /\ stored' = stored \cup {key[h]}
      /\ UNCHANGED <<cleanup, row, visible, key, total, used, unanswered>>
  BY DEF Files!Die, KeysExclusive
<1>2. Shape' /\ KeysExclusive'
  BY <1>1 DEF KeysExclusive, Files!Goto
<1>3. UploadsOwnTheirObject'
  BY <1>1 DEF UploadsOwnTheirObject, Files!Goto
<1>4. EnlistedHaveNoRow' /\ ListedHasContent'
  BY <1>1 DEF EnlistedHaveNoRow, ListedHasContent, Files!ListedHasContent
<1>5. Files!Uploading \subseteq Files!Uploading' \cup leaked'
  BY <1>1, OthersUpload
<1>6. NothingForgotten'
  BY <1>1, <1>5 DEF NothingForgotten, Files!NothingForgotten
<1> QED BY <1>2, <1>3, <1>4, <1>6

LEMMA FindInv ==
  ASSUME FilesInv, NEW h \in FileHandler, Files!Find(h)
  PROVE  FilesInv'
<1> USE DEF FilesInv, Shape, Busy
<1> PICK o \in row : key' = [key EXCEPT ![h] = o]
  BY DEF Files!Find
<1>1. /\ step[h] = "idle" /\ step' = [step EXCEPT ![h] = "remove"]
      /\ UNCHANGED <<stored, cleanup, row, visible, total, used, leaked, unanswered>>
  BY DEF Files!Find, Files!Goto
<1>2. Shape' /\ KeysExclusive'
  BY <1>1 DEF KeysExclusive
<1>3. UploadsOwnTheirObject' /\ EnlistedHaveNoRow' /\ ListedHasContent'
  BY <1>1 DEF UploadsOwnTheirObject, EnlistedHaveNoRow, ListedHasContent, Files!ListedHasContent
<1>4. Files!Uploading \subseteq Files!Uploading'
  BY <1>1 DEF Files!Uploading, Files!Labels
<1>5. NothingForgotten'
  BY <1>1, <1>4 DEF NothingForgotten, Files!NothingForgotten
<1> QED BY <1>2, <1>3, <1>5

LEMMA RemoveInv ==
  ASSUME FilesInv, NEW h \in FileHandler, Files!Remove(h)
  PROVE  FilesInv'
<1> USE DEF FilesInv, Shape, Busy
<1>1. /\ step[h] = "remove" /\ key[h] \in used /\ Files!Goto(h, "idle")
      /\ UNCHANGED <<visible, key, total, used, leaked, unanswered>>
  BY DEF Files!Remove, KeysExclusive
<1>2. \/ /\ key[h] \in row /\ row' = row \ {key[h]} /\ stored' = stored
         /\ cleanup' = [cleanup EXCEPT ![key[h]] = "pending"]
      \/ UNCHANGED <<row, stored, cleanup>>
  BY DEF Files!Remove, Files!EnlistCleanup, Files!Outbox!Enlist
<1>3. Shape' /\ KeysExclusive'
  BY <1>1, <1>2 DEF KeysExclusive, Files!Goto
<1>4. UploadsOwnTheirObject'
  BY <1>1, <1>2 DEF UploadsOwnTheirObject, KeysExclusive, Files!Goto
<1>5. EnlistedHaveNoRow' /\ ListedHasContent'
  BY <1>1, <1>2 DEF EnlistedHaveNoRow, ListedHasContent, Files!ListedHasContent
<1>6. Files!Uploading \subseteq Files!Uploading'
  BY <1>1, OthersUpload
<1>7. NothingForgotten'
  BY <1>1, <1>2, <1>6 DEF NothingForgotten, Files!NothingForgotten
<1> QED BY <1>3, <1>4, <1>5, <1>7

(* The worker takes only objects that are enlisted, and these have no row and     *)
(* are no upload's before its insert.                                             *)
LEMMA CleanInv ==
  ASSUME FilesInv, Files!Outbox!Clean, UNCHANGED service
  PROVE  FilesInv'
<1> USE DEF FilesInv, Shape, Busy
<1> PICK o \in Object : Files!Outbox!Discard(o) \/ Files!Outbox!Complete(o)
  BY DEF Files!Outbox!Clean
<1>1. /\ cleanup[o] = "pending" /\ o \notin row
      /\ \/ stored' = stored \ {o} /\ cleanup' = cleanup
         \/ o \notin stored /\ stored' = stored /\ cleanup' = [cleanup EXCEPT ![o] = "done"]
      /\ UNCHANGED <<row, visible, step, key, total, used, leaked, unanswered>>
  BY DEF Files!Outbox!Discard, Files!Outbox!Complete, service, EnlistedHaveNoRow
<1>2. Shape' /\ KeysExclusive'
  BY <1>1 DEF KeysExclusive
<1>3. UploadsOwnTheirObject'
  BY <1>1 DEF UploadsOwnTheirObject, KeysExclusive
<1>4. EnlistedHaveNoRow' /\ ListedHasContent'
  BY <1>1 DEF EnlistedHaveNoRow, ListedHasContent, Files!ListedHasContent
<1>5. Files!Uploading' = Files!Uploading
  BY <1>1 DEF Files!Uploading
<1>6. NothingForgotten'
  BY <1>1, <1>5 DEF NothingForgotten, Files!NothingForgotten
<1> QED BY <1>2, <1>3, <1>4, <1>6

LEMMA RestInv ==
  FilesInv /\ UNCHANGED <<stored, cleanup, row, step, key, used, leaked, unanswered>> => FilesInv'
BY DEF FilesInv, Shape, KeysExclusive, UploadsOwnTheirObject, EnlistedHaveNoRow,
       ListedHasContent, NothingForgotten, Files!ListedHasContent, Files!NothingForgotten,
       Files!Uploading

LEMMA ServeInv == FilesInv /\ Files!Serve => FilesInv'
<1> SUFFICES ASSUME FilesInv, Files!Serve PROVE FilesInv'
  OBVIOUS
<1>1. CASE \E h \in FileHandler : Files!Accept(h) \/ Files!Put(h) \/ Files!Sum(h) \/ Files!Insert(h) \/ Files!Compensate(h)
                               \/ Files!Die(h) \/ Files!Find(h) \/ Files!Remove(h)
  BY <1>1, AcceptInv, PutInv, SumInv, InsertInv, CompensateInv, DieInv, FindInv, RemoveInv
<1>2. CASE Files!Toggle
  <2>1. UNCHANGED <<stored, cleanup, row, step, key, used, leaked, unanswered>>
    BY <1>2 DEF Files!Toggle
  <2> QED BY <2>1, RestInv
<1> QED BY <1>1, <1>2 DEF Files!Serve

LEMMA FilesStep == FilesInv /\ [Files!Next]_(Files!vars) => FilesInv'
<1>1. UNCHANGED Files!vars => UNCHANGED <<stored, cleanup, row, step, key, used, leaked, unanswered>>
  BY DEF Files!vars, Files!service
<1> QED BY <1>1, ServeInv, CleanInv, RestInv DEF Files!Next, Files!service, service

-----------------------------------------------------------------------------
(* The limit per task *)

(* Cardinality is the same operator here and in Attachments. *)
LEMMA SameCardinality == \A S : Files!Cardinality(S) = Cardinality(S)
BY DEF Cardinality, Files!Cardinality

(* The bytes of one file. *)
FileBytes(o) == {o} \X (1..Size[o])

LEMMA BytesOfOne ==
  ASSUME NEW o, Size[o] \in Nat
  PROVE  IsFiniteSet(FileBytes(o)) /\ Cardinality(FileBytes(o)) = Size[o]
<1>1. IsFiniteSet({o}) /\ Cardinality({o}) = 1
  BY FS_Singleton
<1>2. IsFiniteSet(1..Size[o]) /\ Cardinality(1..Size[o]) = Size[o]
  BY FS_Interval
<1> HIDE DEF FileBytes
<1>3. /\ IsFiniteSet({o} \X (1..Size[o]))
      /\ Cardinality({o} \X (1..Size[o])) = Cardinality({o}) * Cardinality(1..Size[o])
  BY <1>1, <1>2, FS_Product
<1>4. 1 * Size[o] = Size[o]
  OBVIOUS
<1> QED BY <1>1, <1>2, <1>3, <1>4 DEF FileBytes

LEMMA BytesAreFinite ==
  ASSUME NEW rows, IsFiniteSet(rows), \A o \in rows : Size[o] \in Nat
  PROVE  IsFiniteSet(UNION {FileBytes(o) : o \in rows})
<1>1. IsFiniteSet({FileBytes(o) : o \in rows})
  <2>1. [o \in rows |-> FileBytes(o)] \in Surjection(rows, {FileBytes(o) : o \in rows})
    BY DEF Surjection
  <2> QED BY <2>1, FS_Surjection
<1>2. \A T \in {FileBytes(o) : o \in rows} : IsFiniteSet(T)
  BY BytesOfOne
<1> QED BY <1>1, <1>2, FS_UNION

LEMMA TotalIsNatural ==
  ASSUME NEW rows, IsFiniteSet(rows), \A o \in rows : Size[o] \in Nat
  PROVE  /\ Files!TotalOf(rows) = Cardinality(UNION {FileBytes(o) : o \in rows})
         /\ Files!TotalOf(rows) \in Nat
<1>1. Files!TotalOf(rows) = Cardinality(UNION {FileBytes(o) : o \in rows})
  BY SameCardinality DEF Files!TotalOf, FileBytes
<1> QED BY <1>1, BytesAreFinite, FS_CardinalityType

LEMMA TotalOfKnown ==
  ASSUME NEW rows, IsFiniteSet(rows), \A o \in rows : Size[o] \in 1..MaxFile
  PROVE  Files!TotalOf(rows) \in Nat
<1>1. \A o \in rows : Size[o] \in Nat
  BY FileAssumption
<1> QED BY <1>1, TotalIsNatural

(* One more row adds the size of its file at most, and fewer rows are no more.    *)
LEMMA TotalOfOneMore ==
  ASSUME NEW rows, IsFiniteSet(rows), \A r \in rows : Size[r] \in Nat, NEW o, Size[o] \in Nat
  PROVE  /\ IsFiniteSet(rows \cup {o})
         /\ Files!TotalOf(rows \cup {o}) <= Files!TotalOf(rows) + Size[o]
<1> DEFINE old == UNION {FileBytes(r) : r \in rows}
           all == UNION {FileBytes(r) : r \in rows \cup {o}}
<1>1. IsFiniteSet(rows \cup {o})
  BY FS_AddElement
<1>2. IsFiniteSet(old)
  BY BytesAreFinite
<1>3. IsFiniteSet(FileBytes(o)) /\ Cardinality(FileBytes(o)) = Size[o]
  BY BytesOfOne
<1>4. all = old \cup FileBytes(o)
  OBVIOUS
<1>5. Files!TotalOf(rows) = Cardinality(old)
  BY TotalIsNatural
<1>6. Files!TotalOf(rows \cup {o}) = Cardinality(all)
  BY <1>1, TotalIsNatural
<1> HIDE DEF old, all
<1>7. Cardinality(old \cup FileBytes(o))
        = Cardinality(old) + Cardinality(FileBytes(o)) - Cardinality(old \cap FileBytes(o))
  BY <1>2, <1>3, FS_Union
<1>8. Cardinality(old \cap FileBytes(o)) \in Nat
  BY <1>2, FS_Intersection, FS_CardinalityType
<1>9. Cardinality(old) \in Nat
  BY <1>2, FS_CardinalityType
<1> QED BY <1>1, <1>3, <1>4, <1>5, <1>6, <1>7, <1>8, <1>9

LEMMA TotalOfFewer ==
  ASSUME NEW rows, IsFiniteSet(rows), \A r \in rows : Size[r] \in Nat, NEW few \in SUBSET rows
  PROVE  IsFiniteSet(few) /\ Files!TotalOf(few) <= Files!TotalOf(rows)
<1>1. UNION {FileBytes(r) : r \in few} \subseteq UNION {FileBytes(r) : r \in rows}
  OBVIOUS
<1>2. IsFiniteSet(few)
  BY FS_Subset
<1>3. Cardinality(UNION {FileBytes(r) : r \in few}) <= Cardinality(UNION {FileBytes(r) : r \in rows})
  BY <1>1, BytesAreFinite, FS_Subset
<1> QED BY <1>2, <1>3, TotalIsNatural

(* The uploads that are about to insert a row, because the sum they read leaves  *)
(* room for their file.                                                           *)
Ready == {h \in FileHandler : step[h] = "insert" /\ Files!Fits(h)}

Room == MaxTotal + (Cardinality(FileHandler) - 1) * MaxFile

SizesKnown ==
  /\ IsFiniteSet(row) /\ \A o \in row : Size[o] \in 1..MaxFile
  /\ \A h \in FileHandler : step[h] \in {"put", "sum", "insert"} => Size[key[h]] \in 1..MaxFile
  /\ total \in [FileHandler -> Nat]

(* Room for the file of one of those uploads, and for a largest file of each     *)
(* other one: the upload that read the sum last saw the rows as they are.         *)
RoomForReady ==
  Ready # {} =>
    \E h \in Ready :
      Files!TotalOf(row) + Size[key[h]] + (Cardinality(Ready) - 1) * MaxFile <= Room

LimitInv == SizesKnown /\ OverrunBounded /\ RoomForReady

(* The bound is a number, and what a set of uploads may still add grows by one   *)
(* largest file with each of them.                                                *)
LEMMA Times ==
  ASSUME NEW m \in Nat, NEW n \in Nat, m <= n
  PROVE  /\ m * MaxFile \in Nat /\ m * MaxFile <= n * MaxFile
         /\ (m + 1) * MaxFile = m * MaxFile + MaxFile
<1>1. MaxFile \in Nat
  BY FileAssumption
<1> QED BY <1>1

LEMMA RoomIsNatural ==
  /\ Cardinality(FileHandler) \in Nat \ {0}
  /\ Room \in Nat
<1>1. Cardinality(FileHandler) \in Nat \ {0}
  BY FileAssumption, FS_EmptySet, FS_CardinalityType
<1>2. (Cardinality(FileHandler) - 1) * MaxFile \in Nat
  BY <1>1, Times
<1> QED BY <1>1, <1>2, FileAssumption DEF Room

LEMMA ReadyIsFinite ==
  /\ IsFiniteSet(Ready) /\ Cardinality(Ready) \in Nat
  /\ Cardinality(Ready) <= Cardinality(FileHandler)
  /\ Ready # {} => Cardinality(Ready) # 0
<1>1. Ready \subseteq FileHandler
  BY DEF Ready
<1> QED BY <1>1, FileAssumption, FS_Subset, FS_CardinalityType, FS_EmptySet

LEMMA LimitInit == Files!Init => LimitInv
<1> SUFFICES ASSUME Files!Init PROVE LimitInv
  OBVIOUS
<1>1. row = {} /\ step = [h \in FileHandler |-> "idle"]
  BY DEF Files!Init
<1>2. SizesKnown
  BY <1>1, FS_EmptySet DEF SizesKnown, Files!Init
<1>3. Ready = {}
  BY <1>1 DEF Ready
<1>4. Files!TotalOf(row) = 0
  <2>1. UNION {FileBytes(o) : o \in {}} = {}
    OBVIOUS
  <2>2. IsFiniteSet({}) /\ Cardinality({}) = 0
    BY FS_EmptySet
  <2> QED BY <1>1, <2>1, <2>2, TotalIsNatural
<1>6. Room \in Nat
  BY RoomIsNatural
<1>7. OverrunBounded
  BY <1>4, <1>6, SameCardinality DEF OverrunBounded, Files!OverrunBounded, Room
<1> QED BY <1>2, <1>3, <1>7 DEF LimitInv, RoomForReady

(* Nobody joins or leaves, and there are no more bytes than before.              *)
LEMMA SameReady ==
  ASSUME FilesInv, LimitInv, SizesKnown', Files!TotalOf(row') <= Files!TotalOf(row),
         Ready' = Ready, \A h \in Ready : key'[h] = key[h]
  PROVE  LimitInv'
<1>1. Files!TotalOf(row) \in Nat /\ Files!TotalOf(row') \in Nat
  BY TotalOfKnown DEF LimitInv, SizesKnown
<1>2. Room \in Nat /\ Room' = Room
  BY RoomIsNatural DEF Room
<1>3. OverrunBounded'
  BY <1>1, <1>2, SameCardinality DEF LimitInv, OverrunBounded, Files!OverrunBounded, Room
<1>4. RoomForReady'
  <2> SUFFICES ASSUME Ready' # {} PROVE RoomForReady'
    BY DEF RoomForReady
  <2>1. PICK h \in Ready :
          Files!TotalOf(row) + Size[key[h]] + (Cardinality(Ready) - 1) * MaxFile <= Room
    BY DEF LimitInv, RoomForReady
  <2>2. Cardinality(Ready) - 1 \in Nat
    BY ReadyIsFinite
  <2>3. (Cardinality(Ready) - 1) * MaxFile \in Nat
    BY <2>2, Times
  <2>4. Size[key[h]] \in Nat /\ key'[h] = key[h]
    BY FileAssumption DEF LimitInv, SizesKnown, Ready
  <2>5. Files!TotalOf(row') + Size[key'[h]] + (Cardinality(Ready') - 1) * MaxFile <= Room'
    BY <1>1, <1>2, <2>1, <2>3, <2>4
  <2> QED BY <2>1, <2>5 DEF RoomForReady
<1> QED BY <1>3, <1>4 DEF LimitInv

(* An upload inserts its row or gives up.                                         *)
LEMMA ReadyLeaves ==
  ASSUME FilesInv, LimitInv, SizesKnown', NEW h \in Ready,
         Files!TotalOf(row') <= Files!TotalOf(row) + Size[key[h]],
         Ready' = Ready \ {h}, key' = key
  PROVE  LimitInv'
<1>1. Files!TotalOf(row) \in Nat /\ Files!TotalOf(row') \in Nat
  BY TotalOfKnown DEF LimitInv, SizesKnown
<1>2. Room \in Nat /\ Room' = Room
  BY RoomIsNatural DEF Room
<1>3. \A g \in Ready : Size[key[g]] \in 1..MaxFile
  BY DEF LimitInv, SizesKnown, Ready
<1> DEFINE n == Cardinality(Ready)
           T == Files!TotalOf(row)
           U == Files!TotalOf(row')
<1>4. /\ n \in Nat \ {0} /\ Cardinality(Ready') = n - 1
      /\ Ready' # {} => n - 1 \in Nat \ {0}
  <2>1. n \in Nat \ {0} /\ IsFiniteSet(Ready)
    BY ReadyIsFinite
  <2>2. IsFiniteSet(Ready') /\ Cardinality(Ready') = n - 1
    BY <2>1, FS_RemoveElement
  <2>3. Ready' # {} => n - 1 # 0
    BY <2>2, FS_EmptySet
  <2> QED BY <2>1, <2>2, <2>3
<1>5. PICK l \in Ready : T + Size[key[l]] + (n - 1) * MaxFile <= Room
  BY DEF LimitInv, RoomForReady
<1> HIDE DEF n, T, U
<1>6. (n - 1) * MaxFile \in Nat
  BY <1>4, Times
<1>7. U + (n - 1) * MaxFile <= Room \/ (h # l /\ U + Size[key[l]] + (n - 1) * MaxFile <= Room + Size[key[h]])
  <2>1. U <= T + Size[key[h]]
    BY DEF U, T
  <2>2. U \in Nat /\ T \in Nat
    BY <1>1 DEF U, T
  <2>3. Size[key[h]] \in Nat /\ Size[key[l]] \in Nat
    BY <1>3, FileAssumption
  <2>4. CASE h = l
    BY <1>2, <1>5, <1>6, <2>1, <2>2, <2>3, <2>4
  <2>5. CASE h # l
    BY <1>2, <1>5, <1>6, <2>1, <2>2, <2>3, <2>5
  <2> QED BY <2>4, <2>5
<1>8. U <= Room
  <2>1. U \in Nat
    BY <1>1 DEF U
  <2>2. Size[key[h]] \in Nat /\ Size[key[h]] <= MaxFile /\ Size[key[l]] \in Nat
    BY <1>3
  <2>3. CASE U + (n - 1) * MaxFile <= Room
    BY <1>2, <1>6, <2>1, <2>3
  <2>4. CASE h # l /\ U + Size[key[l]] + (n - 1) * MaxFile <= Room + Size[key[h]]
    <3>1. l \in Ready'
      BY <2>4
    <3>2. n - 2 \in Nat /\ (n - 2) + 1 = n - 1
      BY <1>4, <3>1
    <3>3. (n - 1) * MaxFile = (n - 2) * MaxFile + MaxFile /\ (n - 2) * MaxFile \in Nat
      <4>1. ((n - 2) + 1) * MaxFile = (n - 2) * MaxFile + MaxFile /\ (n - 2) * MaxFile \in Nat
        BY <3>2, Times
      <4> QED BY <3>2, <4>1
    <3> QED BY <1>2, <2>1, <2>2, <2>4, <3>3, FileAssumption
  <2> QED BY <1>7, <2>3, <2>4
<1>9. OverrunBounded'
  BY <1>2, <1>8, SameCardinality DEF OverrunBounded, Files!OverrunBounded, Room, U
<1>10. RoomForReady'
  <2> SUFFICES ASSUME Ready' # {} PROVE RoomForReady'
    BY DEF RoomForReady
  <2>1. n - 1 \in Nat \ {0} /\ n - 2 \in Nat
    BY <1>4
  <2>2. (n - 1) * MaxFile = (n - 2) * MaxFile + MaxFile /\ (n - 2) * MaxFile \in Nat
    <3>1. (n - 2) + 1 = n - 1
      BY <1>4
    <3>2. ((n - 2) + 1) * MaxFile = (n - 2) * MaxFile + MaxFile /\ (n - 2) * MaxFile \in Nat
      BY <2>1, Times
    <3> QED BY <3>1, <3>2
  <2>3. ASSUME NEW g \in Ready', U + Size[key[g]] + (n - 2) * MaxFile <= Room
        PROVE  RoomForReady'
    <3>1. (n - 1) - 1 = n - 2
      BY <1>4
    <3>2. Files!TotalOf(row') + Size[key'[g]] + (Cardinality(Ready') - 1) * MaxFile <= Room'
      BY <1>2, <1>4, <2>3, <3>1 DEF U
    <3> QED BY <3>2 DEF RoomForReady
  <2>4. CASE U + (n - 1) * MaxFile <= Room
    <3> PICK g \in Ready' : TRUE
      OBVIOUS
    <3>1. Size[key[g]] \in 1..MaxFile
      BY <1>3
    <3>2. U + Size[key[g]] + (n - 2) * MaxFile <= Room
      BY <1>1, <1>2, <2>2, <2>4, <3>1, FileAssumption DEF U
    <3> QED BY <2>3, <3>2
  <2>5. CASE h # l /\ U + Size[key[l]] + (n - 1) * MaxFile <= Room + Size[key[h]]
    <3>1. l \in Ready'
      BY <2>5
    <3>2. Size[key[h]] \in 1..MaxFile /\ Size[key[l]] \in 1..MaxFile
      BY <1>3
    <3>3. U + Size[key[l]] + (n - 2) * MaxFile <= Room
      BY <1>1, <1>2, <2>2, <2>5, <3>2, FileAssumption DEF U
    <3> QED BY <2>3, <3>1, <3>3
  <2> QED BY <1>7, <2>4, <2>5
<1> QED BY <1>9, <1>10 DEF LimitInv

(* An upload reads the sum, and there is room for its file beside what it read:   *)
(* all the others together add a largest file each at most.                        *)
LEMMA ReadyJoins ==
  ASSUME FilesInv, LimitInv, SizesKnown', NEW h \in FileHandler,
         Size[key[h]] \in Nat, Files!TotalOf(row) + Size[key[h]] <= MaxTotal,
         h \notin Ready, Ready' = Ready \cup {h}, row' = row, key' = key
  PROVE  LimitInv'
<1>1. Files!TotalOf(row) \in Nat /\ MaxTotal \in Nat
  BY TotalOfKnown, FileAssumption DEF LimitInv, SizesKnown
<1>2. Room \in Nat /\ Room' = Room
  BY RoomIsNatural DEF Room
<1>3. Cardinality(Ready') = Cardinality(Ready) + 1 /\ Cardinality(Ready) \in Nat
  BY ReadyIsFinite, FS_AddElement
<1>4. Cardinality(Ready) <= Cardinality(FileHandler) - 1
  <2>1. Ready' \subseteq FileHandler
    BY DEF Ready
  <2>2. Cardinality(Ready') <= Cardinality(FileHandler)
    BY <2>1, FileAssumption, FS_Subset
  <2> QED BY <1>3, <2>2, RoomIsNatural
<1>5. /\ Cardinality(Ready) * MaxFile \in Nat
      /\ Cardinality(Ready) * MaxFile <= (Cardinality(FileHandler) - 1) * MaxFile
      /\ (Cardinality(FileHandler) - 1) * MaxFile \in Nat
  BY <1>3, <1>4, RoomIsNatural, Times
<1>6. Files!TotalOf(row) + Size[key[h]] + Cardinality(Ready) * MaxFile <= Room
  BY <1>1, <1>5 DEF Room
<1>7. Cardinality(Ready') - 1 = Cardinality(Ready)
  BY <1>3
<1>8. Files!TotalOf(row') + Size[key'[h]] + (Cardinality(Ready') - 1) * MaxFile <= Room'
  BY <1>2, <1>6, <1>7
<1>9. h \in Ready'
  OBVIOUS
<1>10. RoomForReady'
  BY <1>8, <1>9 DEF RoomForReady
<1>11. OverrunBounded'
  BY SameCardinality DEF LimitInv, OverrunBounded, Files!OverrunBounded
<1> QED BY <1>10, <1>11 DEF LimitInv

(* A step of an upload that neither reads the sum nor is about to insert, of a    *)
(* removal, of the worker or of the task leaves those uploads alone.               *)
LEMMA OtherStepLimit ==
  ASSUME FilesInv, LimitInv, row' \subseteq row, total' = total,
         \A g \in FileHandler :
           \/ step'[g] = step[g] /\ key'[g] = key[g]
           \/ /\ step[g] \notin {"sum", "insert"} /\ step'[g] # "insert"
              /\ step'[g] \in {"put", "sum"} => Size[key'[g]] \in 1..MaxFile
  PROVE  LimitInv'
<1>1. \A r \in row : Size[r] \in Nat
  BY FileAssumption DEF LimitInv, SizesKnown
<1>2. IsFiniteSet(row') /\ Files!TotalOf(row') <= Files!TotalOf(row)
  BY <1>1, TotalOfFewer DEF LimitInv, SizesKnown
<1>3. SizesKnown'
  BY <1>2 DEF LimitInv, SizesKnown
<1>4. Ready' = Ready /\ \A h \in Ready : key'[h] = key[h]
  BY DEF Ready, Files!Fits
<1> QED BY <1>2, <1>3, <1>4, SameReady

LEMMA SumLimit ==
  ASSUME FilesInv, LimitInv, NEW h \in FileHandler, Files!Sum(h)
  PROVE  LimitInv'
<1>1. /\ step[h] = "sum" /\ total' = [total EXCEPT ![h] = Files!TotalOf(row)]
      /\ step' = [step EXCEPT ![h] = IF visible THEN "insert" ELSE "compensate"]
      /\ row' = row /\ key' = key
  BY DEF Files!Sum, Files!Goto
<1>2. /\ step \in [FileHandler -> Busy \cup {"idle", "remove"}]
      /\ total \in [FileHandler -> Nat]
  BY DEF FilesInv, Shape, LimitInv, SizesKnown
<1>3. Files!TotalOf(row) \in Nat
  BY TotalOfKnown DEF LimitInv, SizesKnown
<1>4. \A g \in FileHandler : g # h => step'[g] = step[g] /\ total'[g] = total[g]
  BY <1>1, <1>2
<1>5. step'[h] \in {"insert", "compensate"} /\ total'[h] = Files!TotalOf(row)
  BY <1>1, <1>2
<1>6. Size[key[h]] \in 1..MaxFile
  BY <1>1 DEF LimitInv, SizesKnown
<1>7. SizesKnown'
  BY <1>1, <1>2, <1>3, <1>4, <1>6 DEF LimitInv, SizesKnown
<1>8. h \notin Ready
  BY <1>1 DEF Ready
<1>9. \A g \in FileHandler : g # h => (g \in Ready' <=> g \in Ready)
  BY <1>1, <1>4 DEF Ready, Files!Fits
<1>10. CASE h \in Ready'
  <2>1. Files!TotalOf(row) + Size[key[h]] <= MaxTotal
    BY <1>1, <1>5, <1>10 DEF Ready, Files!Fits
  <2>2. Ready' = Ready \cup {h}
    BY <1>9, <1>10 DEF Ready
  <2> QED BY <1>1, <1>6, <1>7, <1>8, <2>1, <2>2, ReadyJoins, FileAssumption
<1>11. CASE h \notin Ready'
  <2>1. Ready' = Ready
    BY <1>8, <1>9, <1>11 DEF Ready
  <2> QED BY <1>1, <1>3, <1>7, <2>1, SameReady
<1> QED BY <1>10, <1>11

LEMMA InsertLimit ==
  ASSUME FilesInv, LimitInv, NEW h \in FileHandler, Files!Insert(h)
  PROVE  LimitInv'
<1>1. /\ step[h] = "insert" /\ key' = key /\ total' = total
      /\ \/ step' = [step EXCEPT ![h] = "idle"]
         \/ step' = [step EXCEPT ![h] = "compensate"]
      /\ \/ Files!Fits(h) /\ row' = row \cup {key[h]}
         \/ row' = row
  BY DEF Files!Insert, Files!Goto
<1>2. step \in [FileHandler -> Busy \cup {"idle", "remove"}]
  BY DEF FilesInv, Shape
<1>3. \A g \in FileHandler : g # h => step'[g] = step[g]
  BY <1>1, <1>2
<1>4. step'[h] \in {"idle", "compensate"}
  BY <1>1, <1>2
<1>5. Size[key[h]] \in 1..MaxFile /\ \A r \in row : Size[r] \in Nat
  BY <1>1, FileAssumption DEF LimitInv, SizesKnown
<1>6. Ready' = Ready \ {h}
  BY <1>1, <1>3, <1>4 DEF Ready, Files!Fits
<1>7. Files!TotalOf(row) \in Nat /\ Size[key[h]] \in Nat
  BY <1>5, TotalOfKnown, FileAssumption DEF LimitInv, SizesKnown
<1>8. /\ IsFiniteSet(row')
      /\ Files!TotalOf(row') <= Files!TotalOf(row) + Size[key[h]]
      /\ Files!TotalOf(row') <= Files!TotalOf(row) \/ h \in Ready
  BY <1>1, <1>5, <1>7, TotalOfOneMore DEF LimitInv, SizesKnown, Ready
<1>9. SizesKnown'
  BY <1>1, <1>3, <1>4, <1>5, <1>8 DEF LimitInv, SizesKnown
<1>10. CASE h \in Ready
  BY <1>1, <1>6, <1>8, <1>9, <1>10, ReadyLeaves
<1>11. CASE h \notin Ready
  BY <1>1, <1>6, <1>8, <1>9, <1>11, SameReady
<1> QED BY <1>10, <1>11

(* A request that dies before its insert was to be counted with the others.       *)
LEMMA DieLimit ==
  ASSUME FilesInv, LimitInv, NEW h \in FileHandler, Files!Die(h)
  PROVE  LimitInv'
<1>1. /\ step' = [step EXCEPT ![h] = "idle"] /\ key' = key /\ total' = total /\ row' = row
  BY DEF Files!Die, Files!Goto
<1>2. step \in [FileHandler -> Busy \cup {"idle", "remove"}]
  BY DEF FilesInv, Shape
<1>3. step'[h] = "idle" /\ \A g \in FileHandler : g # h => step'[g] = step[g]
  BY <1>1, <1>2
<1>4. Ready' = Ready \ {h}
  BY <1>1, <1>3 DEF Ready, Files!Fits
<1>5. SizesKnown'
  BY <1>1, <1>3 DEF LimitInv, SizesKnown
<1>6. Files!TotalOf(row) \in Nat
  BY TotalOfKnown DEF LimitInv, SizesKnown
<1>7. CASE h \in Ready
  <2>1. Size[key[h]] \in 1..MaxFile
    BY <1>7 DEF Ready, LimitInv, SizesKnown
  <2>2. Files!TotalOf(row') <= Files!TotalOf(row) + Size[key[h]]
    BY <1>1, <1>6, <2>1, FileAssumption
  <2> QED BY <1>1, <1>4, <1>5, <1>7, <2>2, ReadyLeaves
<1>8. CASE h \notin Ready
  BY <1>1, <1>4, <1>5, <1>6, <1>8, SameReady
<1> QED BY <1>7, <1>8

LEMMA LimitStep == FilesInv /\ LimitInv /\ [Files!Next]_(Files!vars) => LimitInv'
<1> SUFFICES ASSUME FilesInv, LimitInv, [Files!Next]_(Files!vars) PROVE LimitInv'
  OBVIOUS
<1>0. /\ step \in [FileHandler -> Busy \cup {"idle", "remove"}]
      /\ key \in [FileHandler -> Object \cup {Some}]
  BY DEF FilesInv, Shape
<1>1. ASSUME NEW h \in FileHandler, Files!Accept(h) PROVE LimitInv'
  <2> DEFINE o == CHOOSE fresh \in Object : fresh \notin used
  <2>1. /\ step[h] = "idle" /\ Size[o] \in 1..MaxFile /\ key' = [key EXCEPT ![h] = o]
        /\ step' = [step EXCEPT ![h] = "put"] /\ row' = row /\ total' = total
    BY <1>1 DEF Files!Accept, Files!Goto
  <2> HIDE DEF o
  <2>2. step'[h] = "put" /\ key'[h] = o
    BY <1>0, <2>1
  <2>3. \A g \in FileHandler : g # h => step'[g] = step[g] /\ key'[g] = key[g]
    BY <1>0, <2>1
  <2> QED BY <2>1, <2>2, <2>3, OtherStepLimit
<1>2. ASSUME NEW h \in FileHandler, Files!Put(h) PROVE LimitInv'
  <2>1. /\ step[h] = "put" /\ key' = key /\ row' = row /\ total' = total
        /\ \/ step' = [step EXCEPT ![h] = "sum"]
           \/ step' = [step EXCEPT ![h] = "compensate"]
    BY <1>2 DEF Files!Put, Files!Goto
  <2>2. /\ step'[h] \in {"sum", "compensate"} /\ Size[key'[h]] \in 1..MaxFile
        /\ \A g \in FileHandler : g # h => step'[g] = step[g] /\ key'[g] = key[g]
    BY <1>0, <2>1 DEF LimitInv, SizesKnown
  <2> QED BY <2>1, <2>2, OtherStepLimit
<1>3. ASSUME NEW h \in FileHandler, Files!Compensate(h) \/ Files!Find(h) \/ Files!Remove(h)
      PROVE  LimitInv'
  <2>1. /\ step[h] \in {"compensate", "idle", "remove"} /\ row' \subseteq row /\ total' = total
        /\ \/ step' = [step EXCEPT ![h] = "idle"] /\ key' = key
           \/ /\ step' = [step EXCEPT ![h] = "remove"]
              /\ \E o \in row : key' = [key EXCEPT ![h] = o]
    BY <1>3 DEF Files!Compensate, Files!Find, Files!Remove, Files!Goto
  <2>2. /\ step'[h] \in {"idle", "remove"}
        /\ \A g \in FileHandler : g # h => step'[g] = step[g] /\ key'[g] = key[g]
    BY <1>0, <2>1
  <2> QED BY <2>1, <2>2, OtherStepLimit
<1>4. CASE Files!Toggle \/ (Files!Outbox!Clean /\ UNCHANGED Files!service) \/ UNCHANGED Files!vars
  <2>1. UNCHANGED <<row, step, key, total>>
    BY <1>4 DEF Files!Toggle, Files!service, Files!vars
  <2> QED BY <2>1, OtherStepLimit
<1> QED BY <1>1, <1>2, <1>3, <1>4, SumLimit, InsertLimit, DieLimit DEF Files!Next, Files!Serve

(* attachments.service.ts writes the row only after the object is stored, and      *)
(* deletes the object of a row only through the outbox or after an unanswered      *)
(* commit: everything else that is listed has its content.                         *)
THEOREM ContentStays == Files!Spec => []ListedHasContent
<1>1. FilesInv => ListedHasContent
  BY DEF FilesInv
<1> QED BY <1>1, FilesInit, FilesStep, PTL DEF Files!Spec

(* An object in the store belongs to a row, to an upload under way or to the       *)
(* outbox, or its request died or could not compensate.                            *)
THEOREM LeaksExplained == Files!Spec => []NothingForgotten
<1>1. FilesInv => NothingForgotten
  BY DEF FilesInv
<1> QED BY <1>1, FilesInit, FilesStep, PTL DEF Files!Spec

(* The sum that upload checks locks nothing, so uploads under way at once can     *)
(* pass the limit of a task; they pass it by one largest file at most for each    *)
(* upload beyond the first, whatever is removed, fails or dies in between.        *)
THEOREM OverrunAlwaysBounded == Files!Spec => []OverrunBounded
<1>1. Files!Init => FilesInv /\ LimitInv
  BY FilesInit, LimitInit
<1>2. FilesInv /\ LimitInv /\ [Files!Next]_(Files!vars) => (FilesInv /\ LimitInv)'
  BY FilesStep, LimitStep
<1>3. LimitInv => OverrunBounded
  BY DEF LimitInv
<1> QED BY <1>1, <1>2, <1>3, PTL DEF Files!Spec

-----------------------------------------------------------------------------
(* The worker *)

(* A running job works on a pending row, and once it has deleted the object the *)
(* object stays away: nobody stores anything under a key that is enlisted.      *)
JobsOnPendingRows ==
  /\ stored \subseteq Object /\ batch \subseteq Object
  /\ cleanup \in [Object -> {"none", "pending", "done"}]
  /\ job \in [Object -> {"none", "waiting", "active", "deleted", "stalled", "failed"}]
  /\ \A o \in Object :
       /\ job[o] \in {"active", "deleted"} => cleanup[o] = "pending"
       /\ job[o] = "deleted" => o \notin stored

LEMMA JobsInit == Worker!Init => JobsOnPendingRows /\ Worker!Outbox!Init
BY DEF Worker!Init, JobsOnPendingRows, Worker!Outbox!Init

LEMMA WorkStep ==
  ASSUME JobsOnPendingRows, NEW o \in Object, Worker!Work(o)
  PROVE  JobsOnPendingRows' /\ (Files!Outbox!Clean \/ UNCHANGED <<stored, cleanup>>)
<1> USE DEF JobsOnPendingRows
<1>1. CASE Worker!Add(o)
  BY <1>1 DEF Worker!Add
<1>2. CASE Worker!Take(o)
  BY <1>2 DEF Worker!Take
<1>3. CASE Worker!DeleteObject(o)
  <2>1. stored' \in {stored, stored \ {o}} /\ cleanup' = cleanup /\ cleanup[o] = "pending"
    BY <1>3 DEF Worker!DeleteObject
  <2>2. Files!Outbox!Discard(o) \/ UNCHANGED <<stored, cleanup>>
    BY <2>1 DEF Files!Outbox!Discard
  <2>3. JobsOnPendingRows'
    BY <1>3 DEF Worker!DeleteObject, Worker!Thrown
  <2> QED BY <2>2, <2>3 DEF Files!Outbox!Clean
<1>4. CASE Worker!MarkCompleted(o)
  <2>1. Files!Outbox!Complete(o) \/ UNCHANGED <<stored, cleanup>>
    BY <1>4 DEF Worker!MarkCompleted, Files!Outbox!Complete
  <2>2. JobsOnPendingRows'
    BY <1>4 DEF Worker!MarkCompleted, Worker!Thrown
  <2> QED BY <2>1, <2>2 DEF Files!Outbox!Clean
<1>5. CASE Worker!Recover(o)
  BY <1>5 DEF Worker!Recover
<1> QED BY <1>1, <1>2, <1>3, <1>4, <1>5 DEF Worker!Work

LEMMA OperateStep ==
  ASSUME JobsOnPendingRows, Worker!Operate
  PROVE  JobsOnPendingRows' /\ (Files!Outbox!Clean \/ UNCHANGED <<stored, cleanup>>)
<1> USE DEF JobsOnPendingRows
<1>1. CASE \E o \in Object : Worker!Work(o)
  BY <1>1, WorkStep
<1>2. CASE Worker!Start
  BY <1>2 DEF Worker!Start, Worker!Fetched, Worker!Pending
<1>3. CASE Worker!Sweep
  BY <1>3 DEF Worker!Sweep, Worker!Fetched, Worker!Pending
<1>4. CASE Worker!Crash
  BY <1>4 DEF Worker!Crash, Worker!Running
<1> QED BY <1>1, <1>2, <1>3, <1>4 DEF Worker!Operate

OutboxNext == Files!Outbox!Clean \/ \E o \in Object : Files!Outbox!Enlist(o)

LEMMA WorkerStep ==
  ASSUME JobsOnPendingRows, [Worker!Next]_(Worker!vars)
  PROVE  JobsOnPendingRows' /\ (OutboxNext \/ UNCHANGED <<stored, cleanup>>)
<1> USE DEF JobsOnPendingRows
<1>1. CASE Worker!Operate
  BY <1>1, OperateStep DEF OutboxNext
<1>2. CASE \E o \in Object : Worker!Outbox!Enlist(o) /\ UNCHANGED Worker!queue
  <2> PICK o \in Object : Files!Outbox!Enlist(o) /\ UNCHANGED Worker!queue
    BY <1>2 DEF Worker!Outbox!Enlist, Files!Outbox!Enlist
  <2>1. JobsOnPendingRows'
    BY DEF Files!Outbox!Enlist, Worker!queue
  <2> QED BY <2>1 DEF OutboxNext
<1>3. CASE UNCHANGED Worker!vars
  BY <1>3 DEF Worker!vars, Worker!queue
<1> QED BY <1>1, <1>2, <1>3 DEF Worker!Next

(* attachments.cleanup.ts deletes an object only while its row is pending, and  *)
(* marks a row completed only when the object is gone, through every retry,     *)
(* crash and stalled job: the worker implements the outbox.                     *)
THEOREM WorkerImplementsOutbox ==
  Worker!Init /\ [][Worker!Next]_(Worker!vars) => ImplementsOutbox
<1>1. Worker!Init => JobsOnPendingRows /\ Files!Outbox!Init
  BY JobsInit DEF Files!Outbox!Init, Worker!Outbox!Init
<1>2. JobsOnPendingRows /\ [Worker!Next]_(Worker!vars)
        => JobsOnPendingRows' /\ [OutboxNext]_<<stored, cleanup>>
  BY WorkerStep
<1>3. Files!Outbox!Init /\ [][OutboxNext]_<<stored, cleanup>> => Worker!ImplementsOutbox
  BY DEF OutboxNext, Files!Outbox!Init, Files!Outbox!Clean, Files!Outbox!Discard, Files!Outbox!Complete,
         Files!Outbox!Enlist, Worker!ImplementsOutbox, Worker!Outbox!Spec, Worker!Outbox!Init,
         Worker!Outbox!Clean, Worker!Outbox!Discard, Worker!Outbox!Complete,
         Worker!Outbox!Enlist
<1> QED BY <1>1, <1>2, <1>3, PTL DEF ImplementsOutbox

-----------------------------------------------------------------------------
(* Both together *)

JointInv == FilesInv /\ JobsOnPendingRows /\ CompletedStaysGone

(* The API stores nothing under an enlisted key and settles no enlisted row.   *)
LEMMA ServeEffect ==
  ASSUME FilesInv, Files!Serve, NEW o \in Object
  PROVE  /\ o \in stored' => o \in stored \/ cleanup'[o] = "none"
         /\ cleanup'[o] = cleanup[o] \/ (cleanup[o] = "none" /\ cleanup'[o] = "pending")
<1> USE DEF FilesInv, Shape, Busy
<1>1. CASE Files!Toggle
  BY <1>1 DEF Files!Toggle
<1>2. ASSUME NEW h \in FileHandler, Files!Put(h) \/ Files!Die(h)
      PROVE  /\ cleanup' = cleanup
             /\ o \in stored' => o \in stored \/ (step[h] = "put" /\ o = key[h])
  BY <1>2 DEF Files!Put, Files!Die
<1>3. \A h \in FileHandler : step[h] = "put" => cleanup[key[h]] = "none"
  BY DEF UploadsOwnTheirObject
<1>4. ASSUME NEW h \in FileHandler, Files!Accept(h) \/ Files!Sum(h) \/ Files!Insert(h) \/ Files!Compensate(h) \/ Files!Find(h)
      PROVE  stored' \subseteq stored /\ cleanup' = cleanup
  BY <1>4 DEF Files!Accept, Files!Sum, Files!Insert, Files!Compensate, Files!Find
<1>5. ASSUME NEW h \in FileHandler, Files!Remove(h)
      PROVE  /\ stored' = stored
             /\ cleanup'[o] = cleanup[o] \/ (cleanup[o] = "none" /\ cleanup'[o] = "pending")
  BY <1>5 DEF Files!Remove, Files!EnlistCleanup, Files!Outbox!Enlist
<1> QED BY <1>1, <1>2, <1>3, <1>4, <1>5 DEF Files!Serve

LEMMA JointInit == FileInit => JointInv
<1> SUFFICES ASSUME FileInit PROVE JointInv
  OBVIOUS
<1>1. FilesInv
  BY FilesInit DEF FileInit
<1>2. JobsOnPendingRows /\ CompletedStaysGone
  BY DEF FileInit, RestingWorker, Files!Init, JobsOnPendingRows, CompletedStaysGone
<1> QED BY <1>1, <1>2 DEF JointInv

LEMMA JointNext ==
  ASSUME JointInv, [FileNext]_fileVars
  PROVE  JointInv' /\ [Files!Next]_(Files!vars)
<1> USE DEF JointInv
<1>1. CASE Files!Serve /\ UNCHANGED worker
  <2>1. FilesInv'
    BY <1>1, ServeInv
  <2>2. JobsOnPendingRows'
    <3>1. UNCHANGED <<batch, job>>
      BY <1>1 DEF worker
    <3>2. /\ stored' \subseteq Object
          /\ cleanup' \in [Object -> {"none", "pending", "done"}]
      BY <2>1 DEF FilesInv, Shape
    <3> QED BY <1>1, <3>1, <3>2, ServeEffect DEF JobsOnPendingRows
  <2>3. CompletedStaysGone'
    BY <1>1, ServeEffect DEF CompletedStaysGone
  <2> QED BY <1>1, <2>1, <2>2, <2>3 DEF Files!Next
<1>2. CASE Worker!Operate /\ UNCHANGED service
  <2>1. JobsOnPendingRows' /\ (Files!Outbox!Clean \/ UNCHANGED <<stored, cleanup>>)
    BY <1>2, OperateStep
  <2>2. FilesInv'
    BY <1>2, <2>1, CleanInv, RestInv DEF service
  <2>3. CompletedStaysGone'
    BY <2>1 DEF JobsOnPendingRows, CompletedStaysGone, Files!Outbox!Clean, Files!Outbox!Discard,
                Files!Outbox!Complete
  <2> QED BY <1>2, <2>1, <2>2, <2>3 DEF Files!Next, Files!vars, Files!service, service
<1>3. CASE UNCHANGED fileVars
  <2>1. UNCHANGED Files!vars /\ UNCHANGED worker
    BY <1>3 DEF fileVars, Files!vars, Files!service, service
  <2>2. UNCHANGED <<stored, cleanup, row, step, key, used, leaked, unanswered, batch, job>>
    BY <2>1 DEF Files!vars, Files!service, worker
  <2>3. FilesInv'
    BY <2>2, RestInv
  <2>4. JobsOnPendingRows' /\ CompletedStaysGone'
    BY <2>2 DEF JobsOnPendingRows, CompletedStaysGone
  <2> QED BY <2>1, <2>3, <2>4
<1> QED BY <1>1, <1>2, <1>3 DEF FileNext

(* The worker is what attachments.service.ts assumes of it: what the API does   *)
(* beside the real worker is a behaviour of Attachments.                        *)
THEOREM TogetherAsAssumed == FileSpec => Files!Spec
<1>1. FileInit => JointInv /\ Files!Init
  BY JointInit DEF FileInit
<1>2. JointInv /\ [FileNext]_fileVars => JointInv' /\ [Files!Next]_(Files!vars)
  BY JointNext
<1> QED BY <1>1, <1>2, PTL DEF FileSpec, Files!Spec

(* With both processes running: listed attachments have their content, leaks    *)
(* have a known cause, the limit per task is passed by a bounded amount, and an   *)
(* object whose outbox row is completed never returns to the store.               *)
THEOREM FilesAccountedFor ==
  FileSpec => [](ListedHasContent /\ NothingForgotten /\ OverrunBounded /\ CompletedStaysGone)
<1>1. JointInv => ListedHasContent /\ NothingForgotten /\ CompletedStaysGone
  BY DEF JointInv, FilesInv
<1>2. JointInv /\ [FileNext]_fileVars => JointInv'
  BY JointNext
<1> QED BY <1>1, <1>2, JointInit, TogetherAsAssumed, OverrunAlwaysBounded, PTL DEF FileSpec
==============================================================================
