--------------------------- MODULE CollectionInit ---------------------------
(***************************************************************************)
(* How the services find or create their collections and the unique        *)
(* indexes of them when they start.  The transfers reporting service just  *)
(* creates the index, which creates the collection and does nothing when   *)
(* the index exists.  The others list the collections once and then, one   *)
(* collection after the other, use one that was listed, or create it and   *)
(* its index in two calls.  A start that fails ends the process.           *)
(***************************************************************************)
EXTENDS Naturals, Sequences

CONSTANTS Processes,        \* the processes
          Ensuring,         \* those that only create the index
          Collections,      \* the collections of the reporting database
          Needs,            \* the collections of a process, in order
          MaxCrashes        \* bound: processes that die

ASSUME InitAssumption == /\ Ensuring \subseteq Processes
                         /\ Needs \in [Processes -> Seq(Collections)]
                         /\ MaxCrashes \in Nat

VARIABLES exists,           \* the collections that exist
          indexed,          \* those that have their unique index
          pc,               \* where a process is
          listed,           \* the collections a process has listed
          todo,             \* the next collection of a process
          crashes,          \* how many processes died
          interrupted       \* history: collections whose creator died

collectionVars == <<exists, indexed, pc, listed, todo, crashes, interrupted>>

CollectionsTypeOK == /\ exists \in SUBSET Collections
                     /\ indexed \in SUBSET Collections
                     /\ pc \in [Processes -> {"down", "init", "index", "up"}]
                     /\ listed \in [Processes -> SUBSET Collections]
                     /\ todo \in [Processes -> Nat \ {0}]
                     /\ crashes \in Nat
                     /\ interrupted \in SUBSET Collections

CollectionsInit == /\ exists = {}
                   /\ indexed = {}
                   /\ pc = [s \in Processes |-> "down"]
                   /\ listed = [s \in Processes |-> {}]
                   /\ todo = [s \in Processes |-> 1]
                   /\ crashes = 0
                   /\ interrupted = {}

-----------------------------------------------------------------------------
(* The collection process s is about. *)
Current(s) == Needs[s][todo[s]]
IsInitialising(s) == pc[s] = "init" /\ todo[s] <= Len(Needs[s])

(* The transfers reporting service: createIndex, whatever exists. *)
EnsureIndexes(s) == /\ s \in Ensuring
                    /\ pc[s] = "down"
                    /\ LET all == {Needs[s][i] : i \in DOMAIN Needs[s]}
                       IN  exists' = exists \union all /\ indexed' = indexed \union all
                    /\ pc' = [pc EXCEPT ![s] = "up"]
                    /\ UNCHANGED <<listed, todo, crashes, interrupted>>

ListCollections(s) == /\ s \notin Ensuring
                      /\ pc[s] = "down"
                      /\ listed' = [listed EXCEPT ![s] = exists]
                      /\ todo' = [todo EXCEPT ![s] = 1]
                      /\ pc' = [pc EXCEPT ![s] = "init"]
                      /\ UNCHANGED <<exists, indexed, crashes, interrupted>>

(* Mutant of UseCollection: the index is created as well. *)
UseAndIndexCollection(s) ==
  /\ IsInitialising(s)
  /\ Current(s) \in listed[s]
  /\ indexed' = indexed \union {Current(s)}
  /\ todo' = [todo EXCEPT ![s] = @ + 1]
  /\ UNCHANGED <<exists, pc, listed, crashes, interrupted>>

(* A collection that was listed is used as it is. *)
UseCollection(s) == /\ IsInitialising(s)
                    /\ Current(s) \in listed[s]
                    /\ todo' = [todo EXCEPT ![s] = @ + 1]
                    /\ UNCHANGED <<exists, indexed, pc, listed, crashes, interrupted>>

(* Mutant of CreateCollection: the index is forgotten. *)
CreateCollectionOnly(s) == /\ IsInitialising(s)
                           /\ Current(s) \notin listed[s] \union exists
                           /\ exists' = exists \union {Current(s)}
                           /\ todo' = [todo EXCEPT ![s] = @ + 1]
                           /\ UNCHANGED <<indexed, pc, listed, crashes, interrupted>>

CreateCollection(s) == /\ IsInitialising(s)
                       /\ Current(s) \notin listed[s] \union exists
                       /\ exists' = exists \union {Current(s)}
                       /\ pc' = [pc EXCEPT ![s] = "index"]
                       /\ UNCHANGED <<indexed, listed, todo, crashes, interrupted>>

CreateIndex(s) == /\ pc[s] = "index"
                  /\ indexed' = indexed \union {Current(s)}
                  /\ todo' = [todo EXCEPT ![s] = @ + 1]
                  /\ pc' = [pc EXCEPT ![s] = "init"]
                  /\ UNCHANGED <<exists, listed, crashes, interrupted>>

(* Mutant of CollectionExists: createCollection is tried again. *)
CreateAgain(s) == /\ IsInitialising(s)
                  /\ Current(s) \in exists \ listed[s]
                  /\ UNCHANGED collectionVars

(* Another process has created the collection since: createCollection throws,
   nobody catches it, and the process ends. *)
CollectionExists(s) == /\ IsInitialising(s)
                       /\ Current(s) \in exists \ listed[s]
                       /\ pc' = [pc EXCEPT ![s] = "down"]
                       /\ UNCHANGED <<exists, indexed, listed, todo, crashes, interrupted>>

Initialized(s) == /\ pc[s] = "init"
                  /\ todo[s] > Len(Needs[s])
                  /\ pc' = [pc EXCEPT ![s] = "up"]
                  /\ UNCHANGED <<exists, indexed, listed, todo, crashes, interrupted>>

(* The process dies, or a call of init fails and ends it. *)
Crash(s) == /\ pc[s] # "down"
            /\ crashes < MaxCrashes
            /\ crashes' = crashes + 1
            /\ pc' = [pc EXCEPT ![s] = "down"]
            /\ interrupted' = IF pc[s] = "index" THEN interrupted \union {Current(s)}
                              ELSE interrupted
            /\ UNCHANGED <<exists, indexed, listed, todo>>

-----------------------------------------------------------------------------
InitStep(s) == \/ EnsureIndexes(s) \/ ListCollections(s) \/ UseCollection(s)
               \/ CreateCollection(s) \/ CreateIndex(s) \/ CollectionExists(s)
               \/ Initialized(s)

CollectionsNext == \E s \in Processes : InitStep(s) \/ Crash(s)

CollectionsSpec == CollectionsInit /\ [][CollectionsNext]_collectionVars

(* A process that ended is started again, and its calls return. *)
CollectionsFairness == \A s \in Processes : WF_collectionVars(InitStep(s))

FairCollectionsSpec == CollectionsSpec /\ CollectionsFairness

-----------------------------------------------------------------------------
(* Properties. *)

CollectionsOf(s) == {Needs[s][i] : i \in DOMAIN Needs[s]}

(* Some process has created collection c and will create its index. *)
BeingIndexed(c) == \E s \in Processes : pc[s] = "index" /\ Current(s) = c

(* A collection without its unique index is one whose creator is about to
   create it, or died before it could: a process that is up has its indexes,
   whoever created the collections, in every other case. *)
MissingIndexIsInterrupted ==
  \A s \in Processes : pc[s] = "up" =>
    \A c \in CollectionsOf(s) :
      c \in indexed \/ (s \notin Ensuring /\ (BeingIndexed(c) \/ c \in interrupted))

(* A service that always creates the index uses collection c. *)
IsEnsured(c) == \E s \in Ensuring : c \in CollectionsOf(s)

(* A creator that died between the two calls leaves the collection without
   its index for good, however often the processes start again, unless a
   service that always creates the index uses the collection too. *)
InterruptedStaysUnindexed ==
  \A c \in interrupted : ~IsEnsured(c) => c \in exists \ indexed

(* Every process comes up in the end, although two of them that start together
   end each other's start. *)
EveryServiceComesUp == <>[](\A s \in Processes : pc[s] = "up")

-----------------------------------------------------------------------------
(* The strengthening of the invariants that every step preserves. *)

(* Between the two calls only the creator knows of the collection. *)
CreatingInOrder ==
  /\ indexed \union interrupted \subseteq exists
  /\ \A s \in Processes :
       /\ listed[s] \subseteq exists
       /\ s \in Ensuring => pc[s] \in {"down", "up"}
       /\ pc[s] = "index" => /\ todo[s] <= Len(Needs[s])
                             /\ Current(s) \in exists \ interrupted
                             /\ Current(s) \in indexed => IsEnsured(Current(s))
  /\ \A s, r \in Processes :
       pc[s] = "index" /\ pc[r] = "index" /\ Current(s) = Current(r) => s = r

(* An unindexed collection is known to be created, or interrupted. *)
Explained(c) == c \in exists => c \in indexed \union interrupted \/ BeingIndexed(c)

(* The collections a process is past exist. *)
PassedExist ==
  \A s \in Processes :
    /\ pc[s] \in {"init", "index"} =>
         \A i \in DOMAIN Needs[s] : i < todo[s] => Needs[s][i] \in exists
    /\ pc[s] = "up" => /\ CollectionsOf(s) \subseteq exists
                       /\ s \in Ensuring => CollectionsOf(s) \subseteq indexed

CollectionsIInv == /\ CollectionsTypeOK
                   /\ CreatingInOrder
                   /\ \A c \in Collections : Explained(c)
                   /\ PassedExist
                   /\ InterruptedStaysUnindexed
=============================================================================
