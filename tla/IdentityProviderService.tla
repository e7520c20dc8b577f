----------------------- MODULE IdentityProviderService -----------------------
(***************************************************************************)
(* The identity provider service (identity-provider-service/src/bin): HTTP *)
(* handlers that run concurrently over a database of files and a table of  *)
(* pending submissions, the identity verifier that collects attributes,    *)
(* and the wallet proxy through which initial accounts reach the chain.    *)
(*                                                                         *)
(* A handler holds the lock of the database for one operation at a time    *)
(* and gives up control at every await.  Each action is what happens under *)
(* one lock or around one await.  The process may crash at any point; the  *)
(* table of pending submissions is rebuilt from disk when it starts again. *)
(***************************************************************************)
EXTENDS Naturals, FiniteSets

CONSTANTS
  Keys,         \* hashes of idCredPub, the keys of the database
  Requests,     \* requests that carry the same idCredPub
  Handlers,     \* HTTP requests in progress
  None,
  BackupExists, \* directories below backup_root exist (the service makes none)
  TornWrites,   \* a crash may leave a file created and not written
  MaxCrashes,   \* bound on crashes
  FailureKinds, \* what may fail: "write", "remove", "verifier", "proxy"
  MaxFailures   \* bound on failures

VARIABLES
  disk,         \* the files below root and backup_root
  pending,      \* the table in memory: key -> PendingStatus, or None
  attributes,   \* the files of the verifier: the keys with attributes
  chain,        \* external: the initial account of each key
  handler,      \* what each handler is doing
  up,           \* the service runs
  crashes, failures,
  reply         \* the last reply, if it told a wallet about its identity

vars == <<disk, pending, attributes, chain, handler, up, crashes, failures, reply>>

Versions == {"v0", "v1"}

(* A file holds the request it was made from, or was torn by a crash. *)
Torn == [req |-> None, ver |-> None]
File == [req : Requests, ver : Versions] \cup {Torn, None}
Submitted == "Submitted"
CouldNotSubmit == "CouldNotSubmit"
PendingStatus == {Submitted, CouldNotSubmit}
Whole(f) == f \notin {Torn, None}

(* None is none of the values it stands beside. *)
NoneAssumption ==
  /\ None \notin Requests \cup Versions \cup PendingStatus \cup {"Verify", "Created", "Torn"}
  /\ None \notin [req : Requests \cup {None}, ver : Versions \cup {None}]

(* DB::new creates the directories; the files come and go. *)
DB == [requests : [Keys -> File], revocation : [Keys -> File], identity : [Keys -> File],
       backup_revocation : [Keys -> File], backup_identity : [Keys -> File],
       pending : [Keys -> PendingStatus \cup {None, "Torn"}]]

Empty == [k \in Keys |-> None]

(* A handler is at rest, or at a point pc of serving key, for the request  *)
(* that it read, with the last answer it got.                              *)
Idle == [pc |-> "Idle", key |-> None, file |-> None, got |-> None]

Init ==
  /\ disk = [requests |-> Empty, revocation |-> Empty, identity |-> Empty,
             backup_revocation |-> Empty, backup_identity |-> Empty, pending |-> Empty]
  /\ pending = Empty
  /\ attributes = {}
  /\ chain = [k \in Keys |-> "Absent"]
  /\ handler = [h \in Handlers |-> Idle]
  /\ up = TRUE
  /\ crashes = 0 /\ failures = 0
  /\ reply = None

-----------------------------------------------------------------------------
(* Steps of a handler.                                                     *)

At(h, pc) == up /\ handler[h].pc = pc
Goto(h, pc) == handler' = [handler EXCEPT ![h].pc = pc]
Key(h) == handler[h].key

(* handle_rejection and the replies of the handlers: the outcome and the   *)
(* key of an identity token are kept, redirects and errors are not.        *)
Reply(h, k, what) ==
  /\ reply' = IF what \in {"Done", "Pending"} THEN [what |-> what, key |-> k] ELSE None
  /\ handler' = [handler EXCEPT ![h] = Idle]

Fails(kind) == kind \in FailureKinds /\ failures < MaxFailures /\ failures' = failures + 1

(* The keys in Keys are those that ensure_safe_key lets pass. *)
is_duplicate(k) == disk.identity[k] # None \/ disk.revocation[k] # None

(* The filter of the handlers that take a request, with validate_worker.   *)
(* Wrong proofs and unsupported versions change nothing.                   *)
validate_worker(h, k, f, valid) ==
  /\ At(h, "Idle")
  /\ IF is_duplicate(k) THEN Reply(h, k, "DuplicateRequest")
     ELSE IF ~ valid THEN Reply(h, k, "InvalidProofs")
     ELSE /\ handler' = [handler EXCEPT ![h] = [Idle EXCEPT !.pc = "SaveRequest", !.key = k, !.file = f]]
          /\ UNCHANGED reply
  /\ UNCHANGED <<disk, pending, attributes, chain, up, crashes, failures>>

(* The three ways in: a body, and queries of both versions, which may not  *)
(* parse.  Whoever sends a request chooses what it asks for.               *)
extract_and_validate_request(h, k, r, valid) ==
  validate_worker(h, k, [req |-> r, ver |-> "v0"], valid)

Malformed(h, k) ==
  /\ At(h, "Idle")
  /\ Reply(h, k, "Malformed")
  /\ UNCHANGED <<disk, pending, attributes, chain, up, crashes, failures>>

extract_and_validate_request_query(h, k, r, valid) ==
  validate_worker(h, k, [req |-> r, ver |-> "v0"], valid) \/ Malformed(h, k)

extract_and_validate_request_query_v1(h, k, r, valid) ==
  validate_worker(h, k, [req |-> r, ver |-> "v1"], valid) \/ Malformed(h, k)

(* Write a file.  A write may fail: then the handler replies with an       *)
(* internal error, and the file may have been emptied before.              *)
Write(h, dir, next, done) ==
  /\ UNCHANGED <<pending, attributes, chain, up, crashes>>
  /\ \/ /\ disk' = [disk EXCEPT ![dir][Key(h)] = handler[h].file]
        /\ IF done = None THEN Goto(h, next) /\ UNCHANGED reply ELSE Reply(h, Key(h), done)
        /\ UNCHANGED failures
     \/ /\ Fails("write")
        /\ disk' \in {disk, [disk EXCEPT ![dir][Key(h)] = Torn]}
        /\ Reply(h, Key(h), "InternalError")

Serves(h, pc, v) == At(h, pc) /\ handler[h].file.ver = v

save_validated_request(h) ==
  Serves(h, "SaveRequest", "v0") /\ Write(h, "requests", None, "Verify")

save_validated_request_v1(h) ==
  Serves(h, "SaveRequest", "v1") /\ Write(h, "requests", None, "Verify")

(* The identity verifier: only with the signature that the service makes   *)
(* when it saves a request.  The form may ask for a failed identity.       *)
submit_verification_attributes(k) ==
  /\ disk.requests[k] # None
  /\ attributes' = attributes \cup {k}
  /\ UNCHANGED <<disk, pending, chain, handler, up, crashes, failures, reply>>

(* Read the request; a request of the other version does not parse. *)
read_request_record(h, k, v) ==
  /\ At(h, "Idle")
  /\ IF Whole(disk.requests[k]) /\ disk.requests[k].ver = v
     THEN /\ handler' = [handler EXCEPT ![h] =
                 [pc |-> "Attributes", key |-> k, file |-> disk.requests[k], got |-> None]]
          /\ UNCHANGED reply
     ELSE Reply(h, k, "NoValidRequest")
  /\ UNCHANGED <<disk, pending, attributes, chain, up, crashes, failures>>

create_signed_identity_object(h, k) == read_request_record(h, k, "v0")
create_signed_identity_object_v1(h, k) == read_request_record(h, k, "v1")

(* The answer of the verifier; then the identity object is signed. *)
AttributesArrive(h) ==
  /\ \/ Key(h) \in attributes /\ Goto(h, "Revocation") /\ UNCHANGED <<reply, failures>>
     \/ Key(h) \notin attributes /\ Reply(h, Key(h), "IdVerifierFailure") /\ UNCHANGED failures
     \/ Fails("verifier") /\ Reply(h, Key(h), "InternalError")
  /\ UNCHANGED <<disk, pending, attributes, chain, up, crashes>>

sign_identity_object(h) == Serves(h, "Attributes", "v0") /\ AttributesArrive(h)
sign_identity_object_v1(h) == Serves(h, "Attributes", "v1") /\ AttributesArrive(h)

(* Mutant of save_revocation_record: it is written after the identity. *)
save_revocation_late(h) ==
  /\ Serves(h, "Revocation", "v0")
  /\ Goto(h, "Identity")
  /\ UNCHANGED <<disk, pending, attributes, chain, up, crashes, failures, reply>>

save_revocation_record(h) ==
  Serves(h, "Revocation", "v0") /\ Write(h, "revocation", "Identity", None)

save_revocation_record_v1(h) ==
  Serves(h, "Revocation", "v1") /\ Write(h, "revocation", "Identity", None)

write_identity_object(h) ==
  Serves(h, "Identity", "v0") /\ Write(h, "identity", "Submit", None)

write_identity_object_v1(h) ==
  Serves(h, "Identity", "v1") /\ Write(h, "identity", None, "Created")

(* submit_account_creation, with the wallet proxy: it accepts an account   *)
(* once and refuses it afterwards, or when it has expired.  The answer may *)
(* be lost, or the proxy not be reached: then it is to be tried again.     *)
submit_account_creation(h, next) ==
  /\ \/ /\ chain[Key(h)] = "Absent"
        /\ chain' = [chain EXCEPT ![Key(h)] = "Received"]
        /\ \/ handler' = [handler EXCEPT ![h].got = Submitted, ![h].pc = next] /\ UNCHANGED failures
           \/ handler' = [handler EXCEPT ![h].got = CouldNotSubmit, ![h].pc = next] /\ Fails("proxy")
     \/ /\ UNCHANGED chain
        /\ \/ /\ handler' = [handler EXCEPT ![h].got = CouldNotSubmit, ![h].pc = next]
              /\ Fails("proxy")
           \/ /\ handler' = [handler EXCEPT ![h].got = "Rejected", ![h].pc = next]
              /\ IF chain[Key(h)] = "Absent" THEN Fails("proxy") ELSE UNCHANGED failures
  /\ UNCHANGED <<disk, pending, attributes, up, crashes, reply>>

submit(h) == At(h, "Submit") /\ submit_account_creation(h, "WritePending")

(* DB::write_pending: the file, and the table in memory. *)
PendingWritten(h) ==
  /\ disk' = [disk EXCEPT !.pending[Key(h)] = handler[h].got]
  /\ pending' = [pending EXCEPT ![Key(h)] = handler[h].got]

(* Mutant of write_pending: the table is written first. *)
write_pending_table_first(h) ==
  /\ At(h, "WritePending")
  /\ UNCHANGED <<attributes, chain, up, crashes>>
  /\ IF handler[h].got = "Rejected"
     THEN Reply(h, Key(h), "ReuseOfRegId") /\ UNCHANGED <<disk, pending, failures>>
     ELSE \/ PendingWritten(h) /\ Reply(h, Key(h), "Created") /\ UNCHANGED failures
          \/ /\ Fails("write")
             /\ pending' = [pending EXCEPT ![Key(h)] = handler[h].got]
             /\ Reply(h, Key(h), "InternalError")
             /\ UNCHANGED disk

(* The end of create_signed_identity_object. *)
write_pending(h) ==
  /\ At(h, "WritePending")
  /\ UNCHANGED <<attributes, chain, up, crashes>>
  /\ IF handler[h].got = "Rejected"
     THEN Reply(h, Key(h), "ReuseOfRegId") /\ UNCHANGED <<disk, pending, failures>>
     ELSE \/ /\ PendingWritten(h)
             /\ Reply(h, Key(h), "Created")
             /\ UNCHANGED failures
          \/ /\ Fails("write")
             /\ disk' \in {disk, [disk EXCEPT !.pending[Key(h)] = "Torn"]}
             /\ Reply(h, Key(h), "InternalError")
             /\ UNCHANGED pending

-----------------------------------------------------------------------------
(* Retrieval: get_identity_token with followup.                            *)

(* Mutant of followup: a submission that failed is not tried again. *)
followup_no_retry(h, k) ==
  /\ At(h, "Idle")
  /\ handler' = [handler EXCEPT ![h] = [Idle EXCEPT
         !.key = k, !.pc = IF pending[k] = Submitted THEN "Query" ELSE "Respond"]]
  /\ UNCHANGED <<disk, pending, attributes, chain, up, crashes, failures, reply>>

followup(h, k) ==
  /\ At(h, "Idle")
  /\ handler' = [handler EXCEPT ![h] = [Idle EXCEPT
         !.key = k,
         !.pc = CASE pending[k] = None -> "Respond"
                  [] pending[k] = CouldNotSubmit -> "Resubmit"
                  [] pending[k] = Submitted -> "Query"]]
  /\ UNCHANGED <<disk, pending, attributes, chain, up, crashes, failures, reply>>

resubmit(h) == At(h, "Resubmit") /\ submit_account_creation(h, "Followup")

(* The status of a submission as the wallet proxy reports it. *)
query_submission_status(h) ==
  /\ At(h, "Query")
  /\ \/ handler' = [handler EXCEPT ![h].got = chain[Key(h)], ![h].pc = "Followup"] /\ UNCHANGED failures
     \/ Goto(h, "Respond") /\ Fails("proxy")
  /\ UNCHANGED <<disk, pending, attributes, chain, up, crashes, reply>>

(* The files that are left when those of the three steps of delete_all     *)
(* that are in done have succeeded: a step that fails is logged and the    *)
(* next one is made.  A rename fails without its target directory.         *)
Moved(d, dir, backup, k) ==
  IF BackupExists /\ d[dir][k] # None
  THEN [d EXCEPT ![backup][k] = d[dir][k], ![dir][k] = None] ELSE d

DeleteSteps == {"revocation", "identity", "pending"}

delete_all(d, k, done) ==
  LET one == IF "revocation" \in done THEN Moved(d, "revocation", "backup_revocation", k) ELSE d
      two == IF "identity" \in done THEN Moved(one, "identity", "backup_identity", k) ELSE one
  IN IF "pending" \in done THEN [two EXCEPT !.pending[k] = None] ELSE two

(* The file of a submission that was finalized is removed, or stays when   *)
(* that fails.                                                             *)
mark_finalized(d, k, removed) == IF removed THEN [d EXCEPT !.pending[k] = None] ELSE d

(* A failure to move or remove a file is logged, and nothing else. *)
Logged(fine) == IF fine THEN UNCHANGED failures ELSE Fails("remove")

(* What followup does with the answer, under the lock.  A new status only  *)
(* goes to the table in memory; an entry leaves the table before its file  *)
(* is removed, whether or not that succeeds.                               *)
followup_end(h) ==
  /\ At(h, "Followup")
  /\ Goto(h, "Respond")
  /\ LET k == Key(h)
         gone == [pending EXCEPT ![k] = None]
     IN CASE pending[k] = None -> UNCHANGED <<disk, pending, failures>>
          [] pending[k] # None /\ handler[h].got \in PendingStatus ->
               pending' = [pending EXCEPT ![k] = handler[h].got] /\ UNCHANGED <<disk, failures>>
          [] pending[k] # None /\ handler[h].got = "Rejected" ->
               /\ pending' = gone
               /\ \E done \in SUBSET DeleteSteps :
                    disk' = delete_all(disk, k, done) /\ Logged(done = DeleteSteps)
          [] pending[k] # None /\ handler[h].got = "Finalized" ->
               /\ pending' = gone
               /\ \E removed \in BOOLEAN :
                    disk' = mark_finalized(disk, k, removed) /\ Logged(removed)
          [] OTHER -> UNCHANGED <<disk, pending, failures>>
  /\ UNCHANGED <<attributes, chain, up, crashes, reply>>

(* is_pending, under a lock of its own. *)
get_identity_token(h) ==
  /\ At(h, "Respond")
  /\ IF pending[Key(h)] # None THEN Reply(h, Key(h), "Pending")
                               ELSE Goto(h, "Read") /\ UNCHANGED reply
  /\ UNCHANGED <<disk, pending, attributes, chain, up, crashes, failures>>

read_identity_object(h) ==
  /\ At(h, "Read")
  /\ Reply(h, Key(h), IF Whole(disk.identity[Key(h)]) THEN "Done" ELSE "Error")
  /\ UNCHANGED <<disk, pending, attributes, chain, up, crashes, failures>>

(* get_identity_token_v1, and recovery with a valid proof: the object is   *)
(* read without a look at what is pending.                                 *)
get_identity_token_v1(h, k) ==
  /\ At(h, "Idle")
  /\ Reply(h, k, IF Whole(disk.identity[k]) THEN "Done_v1" ELSE "Error")
  /\ UNCHANGED <<disk, pending, attributes, chain, up, crashes, failures>>

validate_recovery_request(h, k, valid) ==
  /\ At(h, "Idle")
  /\ Reply(h, k, IF ~ valid THEN "InvalidProofs"
                 ELSE IF Whole(disk.identity[k]) THEN "Recovered" ELSE "NonExistingIdObject")
  /\ UNCHANGED <<disk, pending, attributes, chain, up, crashes, failures>>

(* A redirect to the address of a failed identity, which is pending for a  *)
(* while.  The request has to be readable.                                 *)
create_failed_identity(h, k, v) ==
  /\ At(h, "Idle")
  /\ Reply(h, k, IF Whole(disk.requests[k]) /\ disk.requests[k].ver = v
                 THEN "Failed" ELSE "NoValidRequest")
  /\ UNCHANGED <<disk, pending, attributes, chain, up, crashes, failures>>

retrieve_failed_identity_token(h, k, late) ==
  /\ At(h, "Idle")
  /\ Reply(h, k, IF late THEN "Error" ELSE "Pending")
  /\ UNCHANGED <<disk, pending, attributes, chain, up, crashes, failures>>

-----------------------------------------------------------------------------
(* The environment.                                                        *)

(* External: the chain goes on with what it received. *)
ChainAdvances(k) ==
  /\ chain[k] \in {"Received", "Committed"}
  /\ chain' = [chain EXCEPT ![k] = IF @ = "Received" THEN "Committed" ELSE "Finalized"]
  /\ UNCHANGED <<disk, pending, attributes, handler, up, crashes, failures, reply>>

(* A crash within delete_all, before which a rename may also have failed.  *)
HalfDeleted ==
  {delete_all(disk, Key(h), done) :
     done \in SUBSET (DeleteSteps \ {"pending"}),
     h \in {g \in Handlers :
       handler[g].pc = "Followup" /\ handler[g].got = "Rejected" /\ pending[Key(g)] # None}}

(* What a crash may leave of the operation that a handler is in. *)
DiskAtCrash ==
  {disk}
  \cup HalfDeleted
  \cup (IF ~ TornWrites THEN {} ELSE
        {[disk EXCEPT ![IF handler[h].pc = "SaveRequest" THEN "requests"
                        ELSE IF handler[h].pc = "Revocation" THEN "revocation" ELSE "identity"]
                       [Key(h)] = Torn] :
            h \in {g \in Handlers : handler[g].pc \in {"SaveRequest", "Revocation", "Identity"}}}
        \cup {[disk EXCEPT !.pending[Key(h)] = "Torn"] :
            h \in {g \in Handlers : handler[g].pc = "WritePending" /\ handler[g].got # "Rejected"}})

Crash ==
  /\ up /\ crashes < MaxCrashes
  /\ crashes' = crashes + 1
  /\ up' = FALSE
  /\ disk' \in DiskAtCrash
  /\ pending' = Empty
  /\ handler' = [h \in Handlers |-> Idle]
  /\ UNCHANGED <<attributes, chain, failures, reply>>

(* DB::new reads what is pending.  A file that does not parse is fatal. *)
Restart ==
  /\ ~ up
  /\ \A k \in Keys : disk.pending[k] # "Torn"
  /\ up' = TRUE
  /\ pending' = disk.pending
  /\ UNCHANGED <<disk, attributes, chain, handler, crashes, failures, reply>>

Step(h) ==
  \/ save_validated_request(h) \/ save_validated_request_v1(h)
  \/ sign_identity_object(h) \/ sign_identity_object_v1(h)
  \/ save_revocation_record(h) \/ save_revocation_record_v1(h)
  \/ write_identity_object(h) \/ write_identity_object_v1(h) \/ submit(h) \/ write_pending(h)
  \/ resubmit(h) \/ query_submission_status(h) \/ followup_end(h)
  \/ get_identity_token(h) \/ read_identity_object(h)

Arrives(h, k) ==
  \/ \E r \in Requests, valid \in BOOLEAN :
        \/ extract_and_validate_request(h, k, r, valid)
        \/ extract_and_validate_request_query(h, k, r, valid)
        \/ extract_and_validate_request_query_v1(h, k, r, valid)
  \/ create_signed_identity_object(h, k)
  \/ create_signed_identity_object_v1(h, k)
  \/ \E v \in Versions : create_failed_identity(h, k, v)
  \/ followup(h, k)
  \/ get_identity_token_v1(h, k)
  \/ \E b \in BOOLEAN : validate_recovery_request(h, k, b) \/ retrieve_failed_identity_token(h, k, b)

Next ==
  \/ \E h \in Handlers : Step(h) \/ \E k \in Keys : Arrives(h, k)
  \/ \E k \in Keys : submit_verification_attributes(k) \/ ChainAdvances(k)
  \/ Crash \/ Restart

Spec == Init /\ [][Next]_vars

(* The wallet polls for its identity object, every handler is run to its   *)
(* end, the chain finalizes, and the operator restarts the service.        *)
Fairness ==
  /\ \A h \in Handlers : WF_vars(Step(h))
  /\ \A k \in Keys : SF_vars(\E h \in Handlers : followup(h, k)) /\ WF_vars(ChainAdvances(k))
  /\ WF_vars(Restart)

-----------------------------------------------------------------------------

(* An identity object appears on disk only when the revocation record of   *)
(* its holder is there, whole, or was moved to the backup, whatever        *)
(* crashed before: nobody can hold an identity that the anonymity revokers *)
(* cannot trace.                                                           *)
RecordIsThere ==
  \A k \in Keys : ~ Whole(disk.identity[k]) /\ Whole(disk'.identity[k])
    => Whole(disk.revocation[k]) \/ Whole(disk.backup_revocation[k])
RevocationRecordFirst == [][RecordIsThere]_vars

(* While the service runs, every entry of the table of pending submissions *)
(* has its file, so that a crash loses none of them: what a wallet is told *)
(* is pending before a crash is pending after the restart (DB::new), or    *)
(* the file is torn and the service does not start.  The other way round,  *)
(* a file without an entry, which would bring a submission back that is    *)
(* over, is left only by a remove_file that failed (DB::mark_finalized and *)
(* DB::delete_all log that and go on).                                     *)
PendingSurvivesRestart ==
  up => \A k \in Keys :
    /\ pending[k] # None => disk.pending[k] # None
    /\ (failures = 0 \/ "remove" \notin FailureKinds) /\ disk.pending[k] \notin {None, "Torn"}
         => pending[k] # None

=============================================================================
