-------------------------- MODULE Processes_proofs --------------------------
(***************************************************************************)
(* Theorems about the processes of the services: how they create their     *)
(* collections when they start (CollectionInit), for any number of them,   *)
(* whatever collections they need and however many of them die; and how    *)
(* each of them starts and stops (ServiceLifecycle), for any signals and   *)
(* any order of the steps of start(), of the calls of stop(), of the       *)
(* timers and of the consumer.                                             *)
(***************************************************************************)
EXTENDS CollectionInit, ServiceLifecycle, TLAPS

-----------------------------------------------------------------------------
(* CollectionInit. *)

(* The positions of a process in its collections. *)
LEMMA Positions ==
  ASSUME NEW s \in Processes, CollectionsTypeOK
  PROVE  /\ Len(Needs[s]) \in Nat /\ todo[s] \in Nat \ {0}
         /\ DOMAIN Needs[s] = 1 .. Len(Needs[s])
         /\ \A i \in DOMAIN Needs[s] : i < todo[s] + 1 => i < todo[s] \/ i = todo[s]
<1>1. Needs[s] \in Seq(Collections) /\ todo[s] \in Nat \ {0}
  BY InitAssumption DEF CollectionsTypeOK
<1>2. Len(Needs[s]) \in Nat /\ DOMAIN Needs[s] = 1 .. Len(Needs[s])
  BY <1>1
<1> QED
  BY <1>1, <1>2

(* What a process is about is one of its collections. *)
LEMMA CurrentIsNeeded ==
  ASSUME NEW s \in Processes, CollectionsTypeOK, todo[s] <= Len(Needs[s])
  PROVE  /\ todo[s] \in DOMAIN Needs[s]
         /\ Current(s) \in Collections
         /\ Current(s) \in CollectionsOf(s)
BY InitAssumption DEF CollectionsTypeOK, Current, CollectionsOf

(* No process has done anything at first. *)
LEMMA InitCollectionsIInv == CollectionsInit => CollectionsIInv
<1> SUFFICES ASSUME CollectionsInit PROVE CollectionsIInv
  OBVIOUS
<1> USE DEF CollectionsInit
<1>1. CollectionsTypeOK
  BY DEF CollectionsTypeOK
<1>2. CreatingInOrder
  BY DEF CreatingInOrder
<1>3. \A c \in Collections : Explained(c)
  BY DEF Explained
<1>4. PassedExist
  BY DEF PassedExist
<1>5. InterruptedStaysUnindexed
  BY DEF InterruptedStaysUnindexed
<1> QED
  BY <1>1, <1>2, <1>3, <1>4, <1>5 DEF CollectionsIInv

(* The transfers reporting service creates its indexes. *)
LEMMA EnsureKeepsIInv ==
  ASSUME CollectionsIInv, NEW s \in Processes, EnsureIndexes(s)
  PROVE  CollectionsIInv'
<1> DEFINE all == CollectionsOf(s)
<1> USE DEF EnsureIndexes
<1>1. exists' = exists \union all /\ indexed' = indexed \union all
  BY DEF CollectionsOf
<1>2. all \subseteq Collections /\ (\A c \in all : IsEnsured(c))
  BY InitAssumption DEF CollectionsOf, IsEnsured
<1> HIDE DEF all
<1>3. CollectionsTypeOK'
  BY <1>1, <1>2 DEF CollectionsIInv, CollectionsTypeOK
<1>4. \A r \in Processes : r # s => pc'[r] = pc[r]
  BY DEF CollectionsIInv, CollectionsTypeOK
<1>5. pc'[s] = "up" /\ pc[s] = "down"
  BY DEF CollectionsIInv, CollectionsTypeOK
<1>6. CreatingInOrder'
  BY <1>1, <1>2, <1>4, <1>5 DEF CollectionsIInv, CreatingInOrder, Current, IsEnsured, CollectionsOf
<1>7. \A c \in Collections : Explained(c)'
  BY <1>1, <1>4, <1>5 DEF CollectionsIInv, Explained, BeingIndexed, Current
<1>8. PassedExist'
  BY <1>1, <1>4, <1>5 DEF CollectionsIInv, PassedExist, CollectionsOf, all
<1>9. InterruptedStaysUnindexed'
  BY <1>1, <1>2 DEF CollectionsIInv, InterruptedStaysUnindexed, IsEnsured, CollectionsOf
<1> QED
  BY <1>3, <1>6, <1>7, <1>8, <1>9 DEF CollectionsIInv

(* A process lists the collections, uses one that was listed, fails because
   one exists, or is ready: no collection changes. *)
LEMMA LookingKeepsIInv ==
  ASSUME CollectionsIInv, NEW s \in Processes,
         ListCollections(s) \/ UseCollection(s) \/ CollectionExists(s) \/ Initialized(s)
  PROVE  CollectionsIInv'
<1> USE DEF ListCollections, UseCollection, CollectionExists, Initialized
<1>1. CollectionsTypeOK'
  BY DEF CollectionsIInv, CollectionsTypeOK
<1>2. UNCHANGED <<exists, indexed, interrupted>>
  OBVIOUS
<1>3. \A r \in Processes : r # s => UNCHANGED <<pc[r], listed[r], todo[r]>>
  BY DEF CollectionsIInv, CollectionsTypeOK
<1>4. pc[s] # "index" /\ pc'[s] # "index"
  BY DEF CollectionsIInv, CollectionsTypeOK, IsInitialising
<1>5. listed'[s] \subseteq exists
  BY DEF CollectionsIInv, CollectionsTypeOK, CreatingInOrder
<1>6. s \in Ensuring => pc'[s] \in {"down", "up"}
  BY DEF CollectionsIInv, CollectionsTypeOK, CreatingInOrder, IsInitialising
<1>7. CreatingInOrder'
  BY <1>2, <1>3, <1>4, <1>5, <1>6
     DEF CollectionsIInv, CreatingInOrder, Current, IsEnsured, CollectionsOf
<1>8. \A c \in Collections : Explained(c)'
  BY <1>2, <1>3, <1>4 DEF CollectionsIInv, Explained, BeingIndexed, Current
<1>9. /\ pc'[s] \in {"init", "index"} =>
           \A i \in DOMAIN Needs[s] : i < todo'[s] => Needs[s][i] \in exists
      /\ pc'[s] = "up" => CollectionsOf(s) \subseteq exists /\ s \notin Ensuring
  <2>1. CASE ListCollections(s)
    <3>1. pc'[s] = "init" /\ todo'[s] = 1
      BY <2>1 DEF CollectionsIInv, CollectionsTypeOK
    <3>2. \A i \in DOMAIN Needs[s] : ~(i < 1)
      BY Positions DEF CollectionsIInv
    <3> QED
      BY <3>1, <3>2
  <2>2. CASE UseCollection(s)
    <3>1. Current(s) \in exists /\ pc'[s] = "init" /\ todo'[s] = todo[s] + 1
      BY <2>2 DEF CollectionsIInv, CollectionsTypeOK, CreatingInOrder, IsInitialising
    <3>2. \A i \in DOMAIN Needs[s] : i < todo[s] + 1 => i < todo[s] \/ i = todo[s]
      BY Positions DEF CollectionsIInv
    <3> QED
      BY <2>2, <3>1, <3>2 DEF CollectionsIInv, PassedExist, IsInitialising, Current
  <2>3. CASE CollectionExists(s)
    BY <2>3 DEF CollectionsIInv, CollectionsTypeOK
  <2>4. CASE Initialized(s)
    <3>1. \A i \in DOMAIN Needs[s] : i < todo[s]
      BY <2>4, Positions DEF CollectionsIInv
    <3>2. \A i \in DOMAIN Needs[s] : Needs[s][i] \in exists
      BY <2>4, <3>1 DEF CollectionsIInv, PassedExist
    <3>3. s \notin Ensuring /\ pc'[s] = "up"
      BY <2>4 DEF CollectionsIInv, CollectionsTypeOK, CreatingInOrder
    <3> QED
      BY <3>2, <3>3 DEF CollectionsOf
  <2> QED
    BY <2>1, <2>2, <2>3, <2>4
<1>10. PassedExist'
  BY <1>2, <1>3, <1>9 DEF CollectionsIInv, PassedExist, CollectionsOf
<1>11. InterruptedStaysUnindexed'
  BY <1>2 DEF CollectionsIInv, InterruptedStaysUnindexed, IsEnsured, CollectionsOf
<1> QED
  BY <1>1, <1>7, <1>8, <1>10, <1>11 DEF CollectionsIInv

(* A process creates a collection that was not there. *)
LEMMA CreateKeepsIInv ==
  ASSUME CollectionsIInv, NEW s \in Processes, CreateCollection(s)
  PROVE  CollectionsIInv'
<1> USE DEF CreateCollection
<1>1. pc[s] = "init" /\ todo[s] <= Len(Needs[s])
  BY DEF IsInitialising
<1>2. Current(s) \in Collections /\ Current(s) \notin exists
  BY <1>1, CurrentIsNeeded DEF CollectionsIInv
<1>3. CollectionsTypeOK'
  BY <1>2 DEF CollectionsIInv, CollectionsTypeOK
<1>4. /\ exists' = exists \union {Current(s)}
      /\ UNCHANGED <<indexed, interrupted, listed, todo>>
      /\ pc'[s] = "index"
      /\ \A r \in Processes : r # s => pc'[r] = pc[r]
      /\ \A r \in Processes : Current(r)' = Current(r)
  BY DEF CollectionsIInv, CollectionsTypeOK, Current
<1>5. s \notin Ensuring
  BY <1>1 DEF CollectionsIInv, CreatingInOrder
<1>6. CreatingInOrder'
  BY <1>1, <1>2, <1>4, <1>5 DEF CollectionsIInv, CreatingInOrder, IsEnsured, CollectionsOf
<1>7. \A c \in Collections : Explained(c)'
  BY <1>4, <1>1 DEF CollectionsIInv, Explained, BeingIndexed
<1>8. PassedExist'
  BY <1>1, <1>4 DEF CollectionsIInv, PassedExist, CollectionsOf
<1>9. InterruptedStaysUnindexed'
  BY <1>4 DEF CollectionsIInv, InterruptedStaysUnindexed, IsEnsured, CollectionsOf
<1> QED
  BY <1>3, <1>6, <1>7, <1>8, <1>9 DEF CollectionsIInv

(* A creator creates the index. *)
LEMMA IndexKeepsIInv ==
  ASSUME CollectionsIInv, NEW s \in Processes, CreateIndex(s)
  PROVE  CollectionsIInv'
<1> USE DEF CreateIndex
<1>1. /\ pc[s] = "index" /\ todo[s] <= Len(Needs[s])
      /\ Current(s) \in exists /\ Current(s) \notin interrupted
      /\ s \notin Ensuring
  BY DEF CollectionsIInv, CreatingInOrder
<1>2. Current(s) \in Collections
  BY <1>1, CurrentIsNeeded DEF CollectionsIInv
<1>3. CollectionsTypeOK'
  BY <1>2 DEF CollectionsIInv, CollectionsTypeOK
<1>4. /\ indexed' = indexed \union {Current(s)}
      /\ UNCHANGED <<exists, interrupted, listed>>
      /\ pc'[s] = "init" /\ todo'[s] = todo[s] + 1
      /\ \A r \in Processes : r # s => /\ UNCHANGED <<pc[r], todo[r]>>
                                      /\ Current(r)' = Current(r)
  BY DEF CollectionsIInv, CollectionsTypeOK, Current
<1>5. \A r \in Processes : r # s /\ pc[r] = "index" => Current(r) # Current(s)
  BY <1>1 DEF CollectionsIInv, CreatingInOrder
<1>6. CreatingInOrder'
  <2>1. (indexed \union interrupted \subseteq exists)'
    BY <1>1, <1>4 DEF CollectionsIInv, CreatingInOrder
  <2>2. ASSUME NEW r \in Processes
        PROVE  (/\ listed[r] \subseteq exists
                /\ r \in Ensuring => pc[r] \in {"down", "up"}
                /\ pc[r] = "index" => /\ todo[r] <= Len(Needs[r])
                                      /\ Current(r) \in exists \ interrupted
                                      /\ Current(r) \in indexed => IsEnsured(Current(r)))'
    BY <1>1, <1>4, <1>5 DEF CollectionsIInv, CreatingInOrder, IsEnsured, CollectionsOf
  <2>3. \A r, q \in Processes :
          pc'[r] = "index" /\ pc'[q] = "index" /\ Current(r)' = Current(q)' => r = q
    BY <1>4 DEF CollectionsIInv, CreatingInOrder
  <2> QED
    BY <2>1, <2>2, <2>3 DEF CreatingInOrder
<1>7. \A c \in Collections : Explained(c)'
  BY <1>4 DEF CollectionsIInv, Explained, BeingIndexed
<1>8. PassedExist'
  <2>1. \A i \in DOMAIN Needs[s] : i < todo[s] + 1 => i < todo[s] \/ i = todo[s]
    BY Positions DEF CollectionsIInv
  <2>2. \A i \in DOMAIN Needs[s] : i < todo[s] + 1 => Needs[s][i] \in exists
    BY <2>1, <1>1 DEF CollectionsIInv, PassedExist, Current
  <2> QED
    BY <2>2, <1>1, <1>4 DEF CollectionsIInv, PassedExist, CollectionsOf
<1>9. InterruptedStaysUnindexed'
  BY <1>1, <1>4 DEF CollectionsIInv, InterruptedStaysUnindexed, IsEnsured, CollectionsOf
<1> QED
  BY <1>3, <1>6, <1>7, <1>8, <1>9 DEF CollectionsIInv

(* A process dies, perhaps between the two calls. *)
LEMMA CrashKeepsIInv ==
  ASSUME CollectionsIInv, NEW s \in Processes, Crash(s)
  PROVE  CollectionsIInv'
<1> USE DEF Crash
<1>1. pc[s] = "index" => /\ todo[s] <= Len(Needs[s])
                         /\ Current(s) \in exists
                         /\ Current(s) \in indexed => IsEnsured(Current(s))
  BY DEF CollectionsIInv, CreatingInOrder
<1>2. pc[s] = "index" => Current(s) \in Collections
  BY <1>1, CurrentIsNeeded DEF CollectionsIInv
<1>3. CollectionsTypeOK'
  BY <1>2 DEF CollectionsIInv, CollectionsTypeOK
<1>4. /\ interrupted' = interrupted \union
           (IF pc[s] = "index" THEN {Current(s)} ELSE {})
      /\ UNCHANGED <<exists, indexed, listed, todo>>
      /\ pc'[s] = "down"
      /\ \A r \in Processes : r # s => pc'[r] = pc[r]
      /\ \A r \in Processes : Current(r)' = Current(r)
  BY DEF CollectionsIInv, CollectionsTypeOK, Current
<1>5. CreatingInOrder'
  BY <1>1, <1>4 DEF CollectionsIInv, CreatingInOrder, IsEnsured, CollectionsOf
<1>6. \A c \in Collections : Explained(c)'
  BY <1>4 DEF CollectionsIInv, Explained, BeingIndexed
<1>7. PassedExist'
  BY <1>4 DEF CollectionsIInv, PassedExist, CollectionsOf
<1>8. InterruptedStaysUnindexed'
  BY <1>1, <1>4 DEF CollectionsIInv, InterruptedStaysUnindexed, IsEnsured, CollectionsOf
<1> QED
  BY <1>3, <1>5, <1>6, <1>7, <1>8 DEF CollectionsIInv

(* Every step keeps the invariant. *)
LEMMA NextKeepsIInv == CollectionsIInv /\ [CollectionsNext]_collectionVars => CollectionsIInv'
<1> SUFFICES ASSUME CollectionsIInv, [CollectionsNext]_collectionVars PROVE CollectionsIInv'
  OBVIOUS
<1>1. CASE CollectionsNext
  BY <1>1, EnsureKeepsIInv, LookingKeepsIInv, CreateKeepsIInv, IndexKeepsIInv,
     CrashKeepsIInv
     DEF CollectionsNext, InitStep
<1>2. CASE UNCHANGED collectionVars
  BY <1>2 DEF collectionVars, CollectionsIInv, CollectionsTypeOK, CreatingInOrder,
              Explained, BeingIndexed, PassedExist,
              InterruptedStaysUnindexed, IsEnsured, CollectionsOf, Current
<1> QED
  BY <1>1, <1>2

(* The invariant holds of every reachable state. *)
THEOREM CollectionsIInvHolds == CollectionsSpec => []CollectionsIInv
BY InitCollectionsIInv, NextKeepsIInv, PTL DEF CollectionsSpec

(* A process that is up has its indexes, except those whose creator is about
   to create them or died before it could. *)
THEOREM MissingIndexHolds == CollectionsSpec => []MissingIndexIsInterrupted
<1>1. CollectionsIInv => MissingIndexIsInterrupted
  <2> SUFFICES ASSUME CollectionsIInv, NEW s \in Processes, pc[s] = "up", NEW c \in CollectionsOf(s)
               PROVE  c \in indexed \/ (s \notin Ensuring /\ (BeingIndexed(c) \/ c \in interrupted))
    BY DEF MissingIndexIsInterrupted
  <2>1. c \in exists /\ (s \in Ensuring => c \in indexed)
    BY DEF CollectionsIInv, PassedExist
  <2>2. Explained(c)
    BY <2>1 DEF CollectionsIInv, CollectionsTypeOK
  <2> QED
    BY <2>1, <2>2 DEF Explained
<1> QED
  BY <1>1, CollectionsIInvHolds, PTL

(* A collection whose creator died stays without its index, unless a service
   that always creates the index uses it. *)
THEOREM InterruptedHolds == CollectionsSpec => []InterruptedStaysUnindexed
<1>1. CollectionsIInv => InterruptedStaysUnindexed
  BY DEF CollectionsIInv
<1> QED
  BY <1>1, CollectionsIInvHolds, PTL

-----------------------------------------------------------------------------
(* ServiceLifecycle. *)

(* What the scripts of the five services have in common. *)
LEMMA Scripts ==
  ASSUME service \in Services
  PROVE  /\ Len(Script.start) \in Nat /\ Len(Script.stop) \in 3 .. 4
         /\ \A i \in 1 .. Len(Script.stop) :
              /\ Script.stop[i] \in Fields
              /\ Script.stop[i] \in DOMAIN Script.set
              /\ Script.set[Script.stop[i]] \in Nat
         /\ Script.stop[1] = "express"
         /\ \A i \in 2 .. Len(Script.stop) : Script.stop[i] # "express"
<1>1. CASE service = "transfers"
  <2>1. Script = TransfersService
    BY <1>1 DEF Script, ScriptOf
  <2>2. Len(Script.start) = 4 /\ Len(Script.stop) = 4
    BY <2>1 DEF TransfersService
  <2>3. /\ Script.stop[1] = "express" /\ Script.stop[2] = "consumer"
        /\ Script.stop[3] = "repo" /\ Script.stop[4] = "logger"
    BY <2>1 DEF TransfersService
  <2>4. \A field \in {"consumer", "express", "logger", "repo"} :
          field \in DOMAIN Script.set /\ Script.set[field] \in Nat
    BY <2>1 DEF TransfersService
  <2>5. \A i \in 1 .. 4 : Script.stop[i] \in {"consumer", "express", "logger", "repo"}
    BY <2>3
  <2>6. \A i \in 2 .. 4 : Script.stop[i] # "express"
    BY <2>3
  <2> QED
    BY <2>2, <2>3, <2>4, <2>5, <2>6 DEF Fields
<1>2. CASE service = "settlements"
  <2>1. Script = SettlementsService
    BY <1>2 DEF Script, ScriptOf
  <2>2. Len(Script.start) = 4 /\ Len(Script.stop) = 4
    BY <2>1 DEF SettlementsService
  <2>3. /\ Script.stop[1] = "express" /\ Script.stop[2] = "handler"
        /\ Script.stop[3] = "consumer" /\ Script.stop[4] = "logger"
    BY <2>1 DEF SettlementsService
  <2>4. \A field \in {"consumer", "express", "handler", "logger"} :
          field \in DOMAIN Script.set /\ Script.set[field] \in Nat
    BY <2>1 DEF SettlementsService
  <2>5. \A i \in 1 .. 4 : Script.stop[i] \in {"consumer", "express", "handler", "logger"}
    BY <2>3
  <2>6. \A i \in 2 .. 4 : Script.stop[i] # "express"
    BY <2>3
  <2> QED
    BY <2>2, <2>3, <2>4, <2>5, <2>6 DEF Fields
<1>3. CASE service = "quotes"
  <2>1. Script = QuotesService
    BY <1>3 DEF Script, ScriptOf
  <2>2. Len(Script.start) = 4 /\ Len(Script.stop) = 4
    BY <2>1 DEF QuotesService
  <2>3. /\ Script.stop[1] = "express" /\ Script.stop[2] = "handler"
        /\ Script.stop[3] = "consumer" /\ Script.stop[4] = "logger"
    BY <2>1 DEF QuotesService
  <2>4. \A field \in {"consumer", "express", "handler", "logger"} :
          field \in DOMAIN Script.set /\ Script.set[field] \in Nat
    BY <2>1 DEF QuotesService
  <2>5. \A i \in 1 .. 4 : Script.stop[i] \in {"consumer", "express", "handler", "logger"}
    BY <2>3
  <2>6. \A i \in 2 .. 4 : Script.stop[i] # "express"
    BY <2>3
  <2> QED
    BY <2>2, <2>3, <2>4, <2>5, <2>6 DEF Fields
<1>4. CASE service = "participants"
  <2>1. Script = ParticipantsService
    BY <1>4 DEF Script, ScriptOf
  <2>2. Len(Script.start) = 4 /\ Len(Script.stop) = 4
    BY <2>1 DEF ParticipantsService
  <2>3. /\ Script.stop[1] = "express" /\ Script.stop[2] = "handler"
        /\ Script.stop[3] = "consumer" /\ Script.stop[4] = "logger"
    BY <2>1 DEF ParticipantsService
  <2>4. \A field \in {"consumer", "express", "handler", "logger"} :
          field \in DOMAIN Script.set /\ Script.set[field] \in Nat
    BY <2>1 DEF ParticipantsService
  <2>5. \A i \in 1 .. 4 : Script.stop[i] \in {"consumer", "express", "handler", "logger"}
    BY <2>3
  <2>6. \A i \in 2 .. 4 : Script.stop[i] # "express"
    BY <2>3
  <2> QED
    BY <2>2, <2>3, <2>4, <2>5, <2>6 DEF Fields
<1>5. CASE service = "api"
  <2>1. Script = ReportingAPI
    BY <1>5 DEF Script, ScriptOf
  <2>2. Len(Script.start) = 11 /\ Len(Script.stop) = 3
    BY <2>1 DEF ReportingAPI
  <2>3. /\ Script.stop[1] = "express" /\ Script.stop[2] = "repo"
        /\ Script.stop[3] = "logger"
    BY <2>1 DEF ReportingAPI
  <2>4. \A field \in {"express", "logger", "repo"} :
          field \in DOMAIN Script.set /\ Script.set[field] \in Nat
    BY <2>1 DEF ReportingAPI
  <2>5. \A i \in 1 .. 3 : Script.stop[i] \in {"express", "logger", "repo"}
    BY <2>3
  <2>6. \A i \in 2 .. 3 : Script.stop[i] # "express"
    BY <2>3
  <2> QED
    BY <2>2, <2>3, <2>4, <2>5, <2>6 DEF Fields
<1> QED
  BY <1>1, <1>2, <1>3, <1>4, <1>5 DEF Services

(* A service that closes its repository destroys its consumer before, and
   sets the field of the consumer first.  No start() of the API calls a
   handler. *)
LEMMA ConsumerBeforeRepo ==
  ASSUME service \in Services
  PROVE  /\ service # "api" =>
              \A i \in 1 .. Len(Script.stop) :
                Script.stop[i] = "repo" =>
                  /\ i = 3 /\ Script.stop[2] = "consumer"
                  /\ Script.set["consumer"] <= Script.set["repo"]
         /\ service = "api" => \A i \in 1 .. Len(Script.start) : Script.start[i] # "handler"
<1>1. CASE service = "transfers"
  <2>1. Script = TransfersService
    BY <1>1 DEF Script, ScriptOf
  <2> QED
    BY <1>1, <2>1 DEF TransfersService
<1>2. CASE service = "settlements"
  <2>1. Script = SettlementsService
    BY <1>2 DEF Script, ScriptOf
  <2> QED
    BY <1>2, <2>1 DEF SettlementsService
<1>3. CASE service = "quotes"
  <2>1. Script = QuotesService
    BY <1>3 DEF Script, ScriptOf
  <2> QED
    BY <1>3, <2>1 DEF QuotesService
<1>4. CASE service = "participants"
  <2>1. Script = ParticipantsService
    BY <1>4 DEF Script, ScriptOf
  <2> QED
    BY <1>4, <2>1 DEF ParticipantsService
<1>5. CASE service = "api"
  <2>1. Script = ReportingAPI
    BY <1>5 DEF Script, ScriptOf
  <2> QED
    BY <1>5, <2>1 DEF ReportingAPI
<1> QED
  BY <1>1, <1>2, <1>3, <1>4, <1>5 DEF Services

(* No process has started when it begins. *)
LEMMA InitIInv == Init => IInv
<1> SUFFICES ASSUME Init PROVE IInv
  OBVIOUS
<1>1. Len(Script.start) \in Nat /\ Len(Script.stop) \in 3 .. 4
  BY Scripts DEF Init
<1>2. TypeOK
  <2>1. failed \in BOOLEAN /\ lost \in BOOLEAN
    BY Zenon DEF Init
  <2> QED
    BY <1>1, <2>1 DEF Init, TypeOK, Running
<1>3. ConsumerFirst
  BY DEF Init, ConsumerFirst
<1> QED
  BY <1>2, <1>3 DEF Init, IInv, StopLosesOnlyAdds, GivenUp, AddsOfQuotes, Alive

(* The history variables are Booleans. *)
LEMMA HistoryIsBoolean ==
  ASSUME TypeOK
  PROVE  failed \in BOOLEAN /\ lost \in BOOLEAN
BY ZenonT(60) DEF TypeOK

(* stop() goes on from its k-th field: it ends, or awaits a later call, and
   never that of the repository before that of a consumer that is there. *)
LEMMA GoingOn ==
  ASSUME TypeOK, NEW s \in Signals, NEW k \in 1 .. Len(Script.stop) + 1, GoOn(s, k)
  PROVE  /\ exit' \in {Running, 0, 9, 99, 999}
         /\ stopAt' \in [Signals -> 0 .. Len(Script.stop)]
         /\ \A r \in Signals : r # s => stopAt'[r] = stopAt[r]
         /\ \/ stopAt'[s] = stopAt[s]
            \/ /\ stopAt'[s] \in k .. Len(Script.stop)
               /\ Script.stop[stopAt'[s]] # "express"
               /\ service # "api" /\ Script.stop[stopAt'[s]] = "repo" => k = 3
<1> USE DEF TypeOK, GoOn
<1>1. CASE CleanExit(k)
  BY <1>1 DEF CleanExit
<1>2. CASE CloseExpress(k)
  BY <1>2 DEF CloseExpress
<1>3. CASE AwaitDestroy(s, k)
  <2>1. PICK i \in ToDestroy(k) : /\ IsFirst(i, k) /\ Script.stop[i] # "express"
                                  /\ stopAt' = [stopAt EXCEPT ![s] = i]
    BY <1>3 DEF AwaitDestroy
  <2>2. i \in k .. Len(Script.stop) /\ IsSet(Script.stop[i])
    BY <2>1 DEF ToDestroy
  <2>3. Len(Script.stop) \in 3 .. 4
    BY Scripts
  <2>4. ASSUME service # "api", Script.stop[i] = "repo", k # 3
        PROVE  FALSE
    <3>1. i = 3 /\ Script.stop[2] = "consumer" /\ Script.set["consumer"] <= Script.set["repo"]
      BY <2>2, <2>3, <2>4, ConsumerBeforeRepo
    <3>2. Script.set["consumer"] \in Nat /\ Script.set["repo"] \in Nat
      <4>1. 2 \in 1 .. Len(Script.stop) /\ 3 \in 1 .. Len(Script.stop)
        BY <2>2, <2>3, <3>1
      <4> QED
        BY <2>4, <3>1, <4>1, Scripts
    <3>3. IsSet("consumer")
      <4>1. returned \in Nat
        BY Scripts
      <4>2. returned >= Script.set["repo"]
        BY <2>2, <2>4 DEF IsSet
      <4> QED
        BY <3>1, <3>2, <4>1, <4>2 DEF IsSet
    <3>4. 2 \in ToDestroy(k)
      BY <2>2, <2>3, <2>4, <3>1, <3>3 DEF ToDestroy
    <3> QED
      BY <2>1, <3>1, <3>4 DEF IsFirst
  <2> QED
    BY <1>3, <2>1, <2>2, <2>3, <2>4 DEF AwaitDestroy
<1> QED
  BY <1>1, <1>2, <1>3

(* Starting, timers and the consumer leave what stop() has done alone. *)
LEMMA StartKeepsIInv ==
  ASSUME IInv, Start \/ Consume
  PROVE  IInv'
<1> USE DEF IInv, Running
<1>1. Len(Script.start) \in Nat /\ service' = service /\ Script' = Script
  BY Scripts DEF TypeOK, Start, Consume, StartCallReturns, StartCallFails, MissingAuditKey,
     StartTimesOut, Deliver, WriteDocument, WriteFails, CommitOffset, StartAdd, AddReturns,
     AddFails, Script
<1>2. CASE Start
  <2>1. TypeOK'
    <3>1. failed' \in BOOLEAN /\ lost' \in BOOLEAN
      <4>1. failed \in BOOLEAN /\ lost \in BOOLEAN
        BY HistoryIsBoolean
      <4>2. CASE StartCallReturns
        BY <4>1, <4>2, Zenon DEF StartCallReturns
      <4>3. CASE StartCallFails
        BY <4>1, <4>3, Zenon DEF StartCallFails
      <4>4. CASE MissingAuditKey
        BY <4>1, <4>4, Zenon DEF MissingAuditKey
      <4>5. CASE StartTimesOut
        BY <4>1, <4>5, Zenon DEF StartTimesOut
      <4> QED
        BY <1>2, <4>2, <4>3, <4>4, <4>5, Zenon DEF Start
    <3>2. returned' \in 0 .. Len(Script.start)
      BY <1>1, <1>2 DEF Start, StartCallReturns, StartCallFails, MissingAuditKey,
         StartTimesOut, Starting, Ready, TypeOK
    <3>3. exit' = exit \/ exit' = 9 \/ exit' = 999
      BY <1>2 DEF Start, StartCallReturns, StartCallFails, MissingAuditKey, StartTimesOut
    <3>4. UNCHANGED <<service, stopAt, destroyed, message, adds>>
      BY <1>2 DEF Start, StartCallReturns, StartCallFails, MissingAuditKey, StartTimesOut
    <3> QED
      BY <1>1, <3>1, <3>2, <3>3, <3>4 DEF TypeOK
  <2>2. UNCHANGED <<service, stopAt, destroyed, message, adds, lost>>
    BY <1>2 DEF Start, StartCallReturns, StartCallFails, MissingAuditKey, StartTimesOut
  <2>3. ConsumerFirst'
    BY <1>1, <2>2 DEF ConsumerFirst
  <2> QED
    BY <2>1, <2>2, <2>3 DEF StopLosesOnlyAdds, GivenUp, AddsOfQuotes, Alive
<1>3. CASE Deliver
  <2>1. service # "api"
    BY <1>3, ConsumerBeforeRepo DEF Deliver, Consuming, TypeOK
  <2> QED
    BY <1>1, <1>3, <2>1 DEF Deliver, TypeOK, ConsumerFirst,
       StopLosesOnlyAdds, GivenUp, AddsOfQuotes, Alive
<1>4. CASE WriteDocument \/ WriteFails
  BY <1>1, <1>4 DEF WriteDocument, WriteFails, TypeOK, ConsumerFirst,
     StopLosesOnlyAdds, GivenUp, AddsOfQuotes, Alive
<1>5. CASE CommitOffset
  BY <1>1, <1>5 DEF CommitOffset, TypeOK, ConsumerFirst,
     StopLosesOnlyAdds, GivenUp, AddsOfQuotes, Alive
<1>6. CASE StartAdd \/ AddReturns
  BY <1>1, <1>6 DEF StartAdd, AddReturns, TypeOK, ConsumerFirst,
     StopLosesOnlyAdds, GivenUp, AddsOfQuotes, Alive
<1>7. CASE AddFails
  BY <1>1, <1>7 DEF AddFails, TypeOK, ConsumerFirst,
     StopLosesOnlyAdds, GivenUp, AddsOfQuotes, Alive
<1> QED
  BY <1>2, <1>3, <1>4, <1>5, <1>6, <1>7 DEF Consume

(* Stopping keeps the consumer before the repository. *)
LEMMA StopKeepsIInv ==
  ASSUME IInv, NEW s \in Signals,
         Signal(s) \/ DestroyReturns(s) \/ DestroyFails(s) \/ StopTimesOut(s)
  PROVE  IInv'
<1> USE DEF IInv
<1>1. /\ Script' = Script /\ Len(Script.start) \in Nat /\ Len(Script.stop) \in 3 .. 4
      /\ service \in Services
  BY Scripts DEF TypeOK, Signal, DestroyReturns, DestroyFails, StopTimesOut, Script
<1>2. CASE Signal(s)
  <2>1. GoOn(s, 1) /\ 1 \in 1 .. Len(Script.stop) + 1
    BY <1>1, <1>2 DEF Signal
  <2>2. TypeOK'
    BY <1>1, <1>2, <2>1, GoingOn DEF Signal, TypeOK
  <2>3. ConsumerFirst'
    BY <1>1, <1>2, <2>1, GoingOn DEF Signal, TypeOK, ConsumerFirst
  <2> QED
    BY <1>2, <2>2, <2>3 DEF Signal, StopLosesOnlyAdds, GivenUp, AddsOfQuotes, Alive
<1>3. CASE DestroyReturns(s)
  <2> DEFINE i == stopAt[s]
  <2>1. i \in 2 .. Len(Script.stop) /\ i + 1 \in 1 .. Len(Script.stop) + 1
    BY <1>1, <1>3, Scripts DEF DestroyReturns, Stopping, TypeOK, ConsumerFirst
  <2>2. GoOn(s, i + 1) /\ Script.stop[i] \in Fields
    BY <1>1, <1>3, <2>1, Scripts DEF DestroyReturns
  <2>3. TypeOK'
    BY <1>1, <1>3, <2>1, <2>2, GoingOn DEF DestroyReturns, TypeOK
  <2>4. destroyed' = destroyed \union {Script.stop[i]}
    BY <1>3 DEF DestroyReturns
  <2>5. ASSUME service # "api", "repo" \in destroyed'
        PROVE  "consumer" \in destroyed'
    BY <1>3, <2>4, <2>5 DEF ConsumerFirst, DestroyReturns, Stopping
  <2>6. ASSUME service # "api", NEW r \in Signals, stopAt'[r] # 0,
               Script.stop[stopAt'[r]] = "repo"
        PROVE  "consumer" \in destroyed'
    <3>1. CASE stopAt'[r] = stopAt[r]
      BY <2>4, <2>6, <3>1 DEF ConsumerFirst
    <3>2. CASE stopAt'[r] # stopAt[r]
      <4>1. r = s /\ i = 2 /\ stopAt'[r] \in i + 1 .. Len(Script.stop)
        BY <2>1, <2>2, <2>6, <3>2, GoingOn
      <4>2. Script.stop[2] = "consumer"
        BY <1>1, <2>1, <2>6, <4>1, ConsumerBeforeRepo
      <4> QED
        BY <2>4, <4>1, <4>2
    <3> QED
      BY <3>1, <3>2
  <2>7. \A r \in Signals : stopAt'[r] # 0 => Script.stop[stopAt'[r]] # "express"
    BY <2>1, <2>2, GoingOn DEF ConsumerFirst
  <2>8. ConsumerFirst'
    BY <1>1, <1>3, <2>4, <2>5, <2>6, <2>7 DEF ConsumerFirst, DestroyReturns
  <2> QED
    BY <1>3, <2>3, <2>8 DEF DestroyReturns,
       StopLosesOnlyAdds, GivenUp, AddsOfQuotes, Alive
<1>4. CASE DestroyFails(s) \/ StopTimesOut(s)
  <2>1. TypeOK'
    <3>1. failed' \in BOOLEAN /\ lost' \in BOOLEAN
      <4>1. failed \in BOOLEAN /\ lost \in BOOLEAN
        BY HistoryIsBoolean
      <4>2. CASE DestroyFails(s)
        BY <4>1, <4>2, Zenon DEF DestroyFails
      <4>3. CASE StopTimesOut(s)
        BY <4>1, <4>3, Zenon DEF StopTimesOut
      <4> QED
        BY <1>4, <4>2, <4>3
    <3> QED
      BY <1>1, <1>4, <3>1 DEF DestroyFails, StopTimesOut, TypeOK
  <2>2. UNCHANGED <<service, stopAt, destroyed, message, adds, lost>>
    BY <1>4 DEF DestroyFails, StopTimesOut
  <2>3. ConsumerFirst'
    BY <1>1, <2>2 DEF ConsumerFirst
  <2> QED
    BY <2>1, <2>2, <2>3 DEF StopLosesOnlyAdds, GivenUp, AddsOfQuotes, Alive
<1> QED
  BY <1>2, <1>3, <1>4

LEMMA StepKeepsIInv == IInv /\ [Next]_vars => IInv'
<1> SUFFICES ASSUME IInv, [Next]_vars PROVE IInv'
  OBVIOUS
<1>1. CASE Start \/ Consume
  BY <1>1, StartKeepsIInv
<1>2. CASE Stop
  BY <1>2, StopKeepsIInv DEF Stop
<1>3. CASE UNCHANGED vars
  BY <1>3 DEF vars, IInv, TypeOK, ConsumerFirst,
     StopLosesOnlyAdds, GivenUp, AddsOfQuotes, Alive, Script
<1> QED
  BY <1>1, <1>2, <1>3 DEF Next

-----------------------------------------------------------------------------
(* The inductive invariant: what stop() has got to, and that the consumer goes
   before the repository (Service.stop and the order of the fields set in
   Service.start). *)
THEOREM IInvHolds == Spec => []IInv
BY InitIInv, StepKeepsIInv, PTL DEF Spec

(* The end of a process gives up no message but requests of the quotes service
   whose add nobody awaits; no service commits a message whose write failed because
   the repository was closed. *)
THEOREM StopLosesOnlyAddsHolds == Spec => []StopLosesOnlyAdds
BY IInvHolds, PTL DEF IInv

(* An exception that no failing call explains ends a process only after its
   express server exists (Service.stop: expressServer.close). *)
THEOREM UngracefulHolds == Spec => []UngracefulOnlyWhenListening
<1> DEFINE P == IInv /\ UngracefulOnlyWhenListening
<1>1. Init => UngracefulOnlyWhenListening
  BY DEF Init, UngracefulOnlyWhenListening, Running
<1>2. ASSUME IInv, UngracefulOnlyWhenListening, [Next]_vars
      PROVE  UngracefulOnlyWhenListening'
  <2> USE DEF UngracefulOnlyWhenListening, Alive, Running
  <2>1. CASE Start
    BY <1>2, <2>1 DEF Start, StartCallReturns, StartCallFails, MissingAuditKey,
       StartTimesOut, Starting, IInv, TypeOK
  <2>2. CASE Consume
    BY <1>2, <2>2 DEF Consume, Deliver, WriteDocument, WriteFails, CommitOffset, StartAdd,
       AddReturns, AddFails
  <2>3. ASSUME NEW s \in Signals, NEW k, GoOn(s, k), Alive, exit' = 999,
               returned' = returned, service' = service
        PROVE  IsSet("express")'
    <3>1. IsSet("express")
      BY <2>3 DEF GoOn, CleanExit, CloseExpress, AwaitDestroy, ToDestroy
    <3> QED
      BY <2>3, <3>1 DEF IsSet, Script
  <2>4. CASE Stop
    <3>1. PICK s \in Signals : Signal(s) \/ DestroyReturns(s) \/ DestroyFails(s)
                               \/ StopTimesOut(s)
      BY <2>4 DEF Stop
    <3> QED
      BY <1>2, <2>3, <3>1 DEF Signal, DestroyReturns, DestroyFails, StopTimesOut, Stopping
  <2>5. CASE UNCHANGED vars
    BY <1>2, <2>5 DEF vars, IsSet, Script
  <2> QED
    BY <1>2, <2>1, <2>2, <2>4, <2>5 DEF Next
<1> QED
  BY <1>1, <1>2, IInvHolds, PTL DEF Spec
=============================================================================
