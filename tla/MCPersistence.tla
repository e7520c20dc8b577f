---------------------------- MODULE MCPersistence ----------------------------
(***************************************************************************)
(* Instances of what is kept on disk: persistent trees and the database of  *)
(* the identity provider service.  A behaviour is that of one part.  The    *)
(* variables that a part does not use stay as they start, or 0.             *)
(***************************************************************************)
EXTENDS IdentityProviderService, Integers, Sequences, TLC

CONSTANT Parts     \* the parts of a run

VARIABLES
  part,
  mem, store, trees, jobs, saved     \* PersistentTrees

ofTrees == <<mem, store, trees, jobs, saved>>
all == <<part, ofTrees, vars>>

NoTrees == mem = 0 /\ store = 0 /\ trees = 0 /\ jobs = 0 /\ saved = 0

-----------------------------------------------------------------------------
(* Trees of four nodes in three levels, with stems and values on both sides *)
(* of the limits up to which they are kept inline.                          *)

TreeParts == {"store", "copies", "migration", "two_threads", "migrate_shared"}
Threads == IF "two_threads" \in Parts THEN {1, 2} ELSE {1}

Trees(p) == INSTANCE PersistentTrees WITH
  Shape <- {<<>>, <<1>>, <<2>>, <<1, 3>>},
  PathLen <- (<<>> :> 0) @@ (<<1>> :> 4) @@ (<<2>> :> 3) @@ (<<1, 3>> :> 1),
  Fresh <- (<<>> :> <<>>) @@ (<<1>> :> <<<<1, 1, 1>>>>) @@ (<<2>> :> <<<<>>>>) @@ (<<1, 3>> :> <<<<2, 2>>>>),
  Values <- {<<5, 5, 5>>},
  Places <- IF p = "store" THEN {<<>>, <<2>>} ELSE IF p = "copies" THEN {<<2>>} ELSE {<<>>},
  Handles <- {1, 2},
  Stores <- IF p \in {"migration", "migrate_shared"} THEN <<"old", "new">> ELSE <<"old">>,
  INLINE_VALUE_LEN <- 2, StemBits <- 2,
  MaxRecords <- IF p = "migration" THEN 6 ELSE IF p \in {"store", "copies"} THEN 7 ELSE 8,
  MaxCells <- CASE p = "store" -> 11 [] p = "copies" -> 16 [] p = "migration" -> 12 [] OTHER -> 20,
  Serializing <- p = "copies", KeepOld <- p = "migrate_shared"

-----------------------------------------------------------------------------
(* One identity.  In polling two handlers meet and the proxy may fail, in   *)
(* crashes the service stops at any point and files may be torn, in         *)
(* failures there is one handler and anything it calls may fail, also the   *)
(* removal of a file.                                                       *)

ASSUME NoneAssumption

ServiceParts == {"polling", "crashes", "failures"}
Service(p) == INSTANCE IdentityProviderService WITH
  Handlers <- IF p = "failures" THEN {1} ELSE Handlers,
  BackupExists <- p # "polling", TornWrites <- p = "crashes",
  MaxCrashes <- IF p = "polling" THEN 0 ELSE 1,
  FailureKinds <- IF p = "failures" THEN {"proxy", "write", "remove", "verifier"} ELSE {"proxy"},
  MaxFailures <- IF p = "failures" THEN 2 ELSE 1

-----------------------------------------------------------------------------
KeptInit ==
  \/ \E p \in Parts \cap TreeParts : part = p /\ Trees(p)!Init /\ Init
  \/ \E p \in Parts \cap ServiceParts : part = p /\ Service(p)!Init /\ NoTrees

UseTrees == \E p \in Parts \cap TreeParts : part = p /\ Trees(p)!Next /\ UNCHANGED <<part, vars>>
Serve == \E p \in Parts \cap ServiceParts : part = p /\ Service(p)!Next /\ UNCHANGED <<part, ofTrees>>

KeptNext == UseTrees \/ Serve

\* A thread goes on with its store; a handler runs to its end, the wallet polls, the chain
\* finalizes.
StoreGoesOn(t) == part = "store" /\ Trees("store")!Step(t) /\ UNCHANGED <<part, vars>>
HandlerGoesOn(h) == part = "polling" /\ Service("polling")!Step(h) /\ UNCHANGED <<part, ofTrees>>
WalletPolls(k) ==
  part = "polling" /\ (\E h \in Handlers : Service("polling")!followup(h, k)) /\ UNCHANGED <<part, ofTrees>>
ChainGoesOn(k) == part = "polling" /\ Service("polling")!ChainAdvances(k) /\ UNCHANGED <<part, ofTrees>>

WorkGoesOn ==
  /\ \A t \in Threads : WF_all(StoreGoesOn(t))
  /\ \A h \in Handlers : WF_all(HandlerGoesOn(h))
  /\ \A k \in Keys : SF_all(WalletPolls(k)) /\ WF_all(ChainGoesOn(k))

KeptSpec == KeptInit /\ [][KeptNext]_all /\ WorkGoesOn

-----------------------------------------------------------------------------
\* Whatever is stored, cached, derived from it, copied or migrated, a tree reads as the values
\* it was made with, and hashes as what is below it (CachedRef, Hashed, Node).  One thread
\* works on the trees.
TreesKeepTheirContents ==
  \A p \in Parts \cap TreeParts : part = p => Trees(p)!TreesKeepTheirContents

\* A reference that store_update returned loads the tree that was stored, also when trees that
\* share its nodes were stored before or since, one after the other, and a node that is on disk
\* has all below it on disk.
StoredTreesLoad ==
  \A p \in Parts \cap TreeParts :
    part = p => Trees(p)!StoredTreesLoad /\ (p = "store" => Trees(p)!StoredNodesAreClosed)

\* What was begun ends: a store that a thread makes (store_update), and a submission that is
\* pending while the wallet keeps polling, though the proxy fails on the way (followup).
WorkEnds ==
  /\ \A t \in Threads : (part = "store" /\ jobs[t] # <<>>) ~> (part = "store" /\ jobs[t] = <<>>)
  /\ \A k \in Keys : (part = "polling" /\ pending[k] # None) ~> (part = "polling" /\ pending[k] = None)
=============================================================================
