-------------------- MODULE IdentityProviderService_proofs --------------------
(***************************************************************************)
(* What holds of the identity provider service for any number of           *)
(* identities, requests, handlers, crashes and failures.                   *)
(***************************************************************************)
EXTENDS IdentityProviderService, TLAPS

Record == [req : Requests, ver : Versions]
Serving == {"SaveRequest", "Attributes", "Revocation", "Identity", "Submit", "WritePending"}
Following == {"Resubmit", "Query", "Followup", "Respond", "Read"}
Answers == PendingStatus \cup {"Rejected", "Absent", "Received", "Committed", "Finalized", None}

HandlerState ==
  [pc : {"Idle"} \cup Serving \cup Following, key : Keys \cup {None}, file : File, got : Answers]

(* What the point at which a handler is says of what it holds. *)
HandlerOK(x) ==
  /\ x \in HandlerState
  /\ x.pc # "Idle" => x.key \in Keys
  /\ x.pc \in Serving => x.file \in Record
  /\ x.pc = "WritePending" => x.got \in PendingStatus \cup {"Rejected"}

HandlersOK == handler \in [Handlers -> HandlerState] /\ \A h \in Handlers : HandlerOK(handler[h])

TypeOK ==
  /\ disk \in DB
  /\ pending \in [Keys -> PendingStatus \cup {None}]
  /\ chain \in [Keys -> {"Absent", "Received", "Committed", "Finalized"}]
  /\ HandlersOK
  /\ failures \in Nat

-----------------------------------------------------------------------------
(* Files.                                                                  *)

(* What a handler writes is whole. *)
LEMMA RecordsAreWhole ==
  ASSUME NoneAssumption, NEW f \in Record
  PROVE  Whole(f)
BY DEF NoneAssumption, Record, Whole, Torn, Versions

(* A whole file has what a handler wrote. *)
LEMMA WholeFilesAreRecords ==
  ASSUME NEW f \in File, Whole(f)
  PROVE  f \in Record
BY DEF File, Whole, Record

(* A file of the database may be replaced by another. *)
LEMMA WriteKeepsDB ==
  ASSUME disk \in DB, NEW k \in Keys, NEW f \in File,
         NEW dir \in {"requests", "revocation", "identity"}
  PROVE  [disk EXCEPT ![dir][k] = f] \in DB
BY DEF DB

LEMMA WritePendingKeepsDB ==
  ASSUME disk \in DB, NEW k \in Keys, NEW s \in PendingStatus \cup {None, "Torn"}
  PROVE  [disk EXCEPT !.pending[k] = s] \in DB
BY DEF DB

(* Moving to the backup keeps what is pending, and every revocation record.*)
LEMMA MovedOK ==
  ASSUME NEW d \in DB, NEW k \in Keys, None \in File
  PROVE  /\ Moved(d, "revocation", "backup_revocation", k) \in DB
         /\ Moved(d, "identity", "backup_identity", k) \in DB
BY DEF Moved, DB

-----------------------------------------------------------------------------
(* Handlers.                                                               *)

LEMMA SetHandler ==
  ASSUME HandlersOK, NEW h \in Handlers, NEW x, HandlerOK(x),
         handler' = [handler EXCEPT ![h] = x]
  PROVE  HandlersOK'
<1>1. handler' \in [Handlers -> HandlerState]
  BY DEF HandlersOK, HandlerOK
<1>2. ASSUME NEW g \in Handlers PROVE HandlerOK(handler[g])'
  <2>1. handler'[g] = IF g = h THEN x ELSE handler[g]
    BY DEF HandlersOK
  <2>. QED BY <2>1 DEF HandlersOK, HandlerOK
<1>. QED BY <1>1, <1>2 DEF HandlersOK

LEMMA IdleOK == HandlerOK(Idle)
BY DEF HandlerOK, HandlerState, Idle, File, Answers, Serving, Following

LEMMA ReplyOK ==
  ASSUME HandlersOK, NEW h \in Handlers, NEW k, NEW what, Reply(h, k, what)
  PROVE  HandlersOK'
BY SetHandler, IdleOK DEF Reply

(* A handler that serves a key goes on. *)
LEMMA GotoOK ==
  ASSUME HandlersOK, NEW h \in Handlers, handler[h].pc # "Idle",
         NEW pc \in (Serving \cup Following) \ {"WritePending"},
         pc \in Serving => handler[h].file \in Record,
         Goto(h, pc)
  PROVE  HandlersOK'
<1>1. handler' = [handler EXCEPT ![h] = [handler[h] EXCEPT !.pc = pc]]
  BY DEF Goto, HandlersOK
<1>2. HandlerOK(handler[h])
  BY DEF HandlersOK
<1>3. HandlerOK([handler[h] EXCEPT !.pc = pc])
  BY <1>2 DEF HandlerOK, HandlerState
<1>. QED BY <1>1, <1>3, SetHandler

(* A handler that serves a key goes on with an answer. *)
LEMMA GotOK ==
  ASSUME HandlersOK, NEW h \in Handlers, handler[h].pc # "Idle",
         NEW got \in Answers, NEW pc \in {"WritePending", "Followup"},
         pc = "WritePending" =>
           handler[h].file \in Record /\ got \in PendingStatus \cup {"Rejected"},
         handler' = [handler EXCEPT ![h].got = got, ![h].pc = pc]
  PROVE  HandlersOK'
<1>1. handler' = [handler EXCEPT ![h] = [handler[h] EXCEPT !.got = got, !.pc = pc]]
  BY DEF HandlersOK
<1>2. HandlerOK(handler[h])
  BY DEF HandlersOK
<1>3. HandlerOK([handler[h] EXCEPT !.got = got, !.pc = pc])
  BY <1>2 DEF HandlerOK, HandlerState, Serving, Following
<1>. QED BY <1>1, <1>3, SetHandler

(* A handler that begins to serve a key. *)
LEMMA BeginOK ==
  ASSUME HandlersOK, NEW h \in Handlers, NEW k \in Keys, NEW f \in File,
         NEW pc \in (Serving \cup Following) \ {"WritePending"},
         pc \in Serving => f \in Record,
         NEW x \in [pc : {pc}, key : {k}, file : {f}, got : {None}],
         handler' = [handler EXCEPT ![h] = x]
  PROVE  HandlersOK'
<1>1. HandlerOK(x)
  BY DEF HandlerOK, HandlerState, Answers
<1>. QED BY <1>1, SetHandler

-----------------------------------------------------------------------------
(* Every step keeps the types and the table of pending submissions.        *)

Inv == TypeOK /\ PendingSurvivesRestart

(* Failures are counted and never forgotten. *)
Counted == failures' \in Nat /\ (failures' = 0 => failures = 0)

(* Every step counts the failure that it meets, if any. *)
LEMMA FailuresCount ==
  ASSUME failures \in Nat, [Next]_vars
  PROVE  Counted
<1>1. \A kind : Fails(kind) => Counted
  BY DEF Fails, Counted
<1>2. UNCHANGED failures => Counted
  BY DEF Counted
<1>3. ASSUME NEW h \in Handlers, NEW dir, NEW next, NEW done, Write(h, dir, next, done)
      PROVE  Counted
  BY <1>1, <1>2, <1>3 DEF Write
<1>4. ASSUME NEW h \in Handlers, NEW next, submit_account_creation(h, next)
      PROVE  Counted
  BY <1>1, <1>2, <1>4 DEF submit_account_creation
<1>5. ASSUME NEW h \in Handlers, Step(h)
      PROVE  Counted
  <2>1. CASE \/ save_validated_request(h) \/ save_validated_request_v1(h)
             \/ save_revocation_record(h) \/ save_revocation_record_v1(h)
             \/ write_identity_object(h) \/ write_identity_object_v1(h)
    BY <2>1, <1>3 DEF save_validated_request, save_validated_request_v1, save_revocation_record,
       save_revocation_record_v1, write_identity_object, write_identity_object_v1
  <2>2. CASE sign_identity_object(h) \/ sign_identity_object_v1(h)
    BY <2>2, <1>1, <1>2 DEF sign_identity_object, sign_identity_object_v1, AttributesArrive
  <2>3. CASE submit(h) \/ resubmit(h)
    BY <2>3, <1>4 DEF submit, resubmit
  <2>4. CASE write_pending(h)
    BY <2>4, <1>1, <1>2 DEF write_pending
  <2>5. CASE query_submission_status(h)
    BY <2>5, <1>1, <1>2 DEF query_submission_status
  <2>6. CASE followup_end(h)
    <3>1. \A fine : Logged(fine) => Counted
      BY <1>1, <1>2 DEF Logged
    <3>. QED BY <2>6, <3>1, <1>2 DEF followup_end
  <2>7. CASE get_identity_token(h) \/ read_identity_object(h)
    BY <2>7, <1>2 DEF get_identity_token, read_identity_object
  <2>. QED BY <1>5, <2>1, <2>2, <2>3, <2>4, <2>5, <2>6, <2>7 DEF Step
<1>6. ASSUME NEW h \in Handlers, NEW k \in Keys, Arrives(h, k)
      PROVE  UNCHANGED failures
  BY <1>6 DEF Arrives, extract_and_validate_request, extract_and_validate_request_query,
     extract_and_validate_request_query_v1, create_signed_identity_object, validate_worker,
     create_signed_identity_object_v1, read_request_record, create_failed_identity, followup,
     get_identity_token_v1, validate_recovery_request, retrieve_failed_identity_token, Malformed
<1>7. CASE \/ \E k \in Keys : submit_verification_attributes(k) \/ ChainAdvances(k)
           \/ Crash \/ Restart \/ UNCHANGED vars
  BY <1>7, <1>2 DEF submit_verification_attributes, ChainAdvances, Crash, Restart, vars
<1>. QED BY <1>2, <1>5, <1>6, <1>7 DEF Next

(* A step that touches neither what is pending nor whether the service     *)
(* runs keeps what it says of them.                                        *)
LEMMA PendingUnchanged ==
  ASSUME Inv, Counted, disk' \in DB, disk'.pending = disk.pending, UNCHANGED <<pending, chain, up>>,
         HandlersOK'
  PROVE  Inv'
BY DEF Inv, TypeOK, PendingSurvivesRestart, Counted

LEMMA DiskUnchanged ==
  ASSUME Inv, Counted, UNCHANGED <<disk, pending, chain, up>>, HandlersOK'
  PROVE  Inv'
BY PendingUnchanged DEF Inv, TypeOK

(* Files that are written: the request, the record and the identity. *)
LEMMA WriteOK ==
  ASSUME Inv, Counted, NEW h \in Handlers, handler[h].pc \in Serving,
         NEW dir \in {"requests", "revocation", "identity"},
         NEW next, NEW done, Write(h, dir, next, done),
         done = None => next \in Serving \ {"WritePending"}
  PROVE  Inv'
<1>1. HandlersOK /\ disk \in DB
  BY DEF Inv, TypeOK
<1>2. HandlerOK(handler[h]) /\ Key(h) \in Keys /\ handler[h].file \in Record
  BY <1>1 DEF HandlersOK, HandlerOK, Key, Serving
<1>3. handler[h].file \in File /\ Torn \in File
  BY <1>2 DEF File, Record
<1>4. \E f \in File : disk' = disk \/ disk' = [disk EXCEPT ![dir][Key(h)] = f]
  BY <1>3 DEF Write
<1>5. disk' \in DB /\ disk'.pending = disk.pending
  <2>1. PICK f \in File : disk' = disk \/ disk' = [disk EXCEPT ![dir][Key(h)] = f]
    BY <1>4
  <2>2. CASE disk' = disk
    BY <2>2, <1>1
  <2>3. CASE disk' = [disk EXCEPT ![dir][Key(h)] = f]
    <3>1. disk' \in DB
      BY <2>3, <1>1, <1>2, WriteKeepsDB
    <3>. QED BY <2>3, <3>1, <1>1 DEF DB
  <2>. QED BY <2>1, <2>2, <2>3
<1>6. HandlersOK'
  <2>1. CASE \E what : Reply(h, Key(h), what)
    BY <2>1, <1>1, ReplyOK
  <2>2. CASE done = None /\ Goto(h, next)
    BY <2>2, <1>1, <1>2, GotoOK DEF Serving
  <2>. QED BY <2>1, <2>2 DEF Write
<1>7. UNCHANGED <<pending, chain, up>>
  BY DEF Write
<1>. QED BY <1>5, <1>6, <1>7, PendingUnchanged

(* The wallet proxy is asked to submit an account. *)
LEMMA SubmitOK ==
  ASSUME Inv, Counted, NEW h \in Handlers, NEW next \in {"WritePending", "Followup"},
         handler[h].pc \in {"Submit", "Resubmit"},
         next = "WritePending" => handler[h].pc = "Submit",
         submit_account_creation(h, next)
  PROVE  Inv'
<1>1. HandlersOK /\ chain \in [Keys -> {"Absent", "Received", "Committed", "Finalized"}]
  BY DEF Inv, TypeOK
<1>2. next = "WritePending" => handler[h].file \in Record
  BY <1>1 DEF HandlersOK, HandlerOK, Serving
<1>3. \E got \in PendingStatus \cup {"Rejected"} :
        handler' = [handler EXCEPT ![h].got = got, ![h].pc = next]
  BY DEF submit_account_creation, PendingStatus
<1>4. HandlersOK'
  <2>1. PICK got \in PendingStatus \cup {"Rejected"} :
          handler' = [handler EXCEPT ![h].got = got, ![h].pc = next]
    BY <1>3
  <2>. QED BY <2>1, <1>1, <1>2, GotOK DEF Answers
<1>5. chain' \in [Keys -> {"Absent", "Received", "Committed", "Finalized"}]
  BY <1>1 DEF submit_account_creation
<1>. QED
  BY <1>4, <1>5 DEF Inv, TypeOK, PendingSurvivesRestart, submit_account_creation, Counted

(* The submission is recorded, on disk and in the table. *)
LEMMA WritePendingOK ==
  ASSUME NoneAssumption, Inv, Counted, NEW h \in Handlers, write_pending(h)
  PROVE  Inv'
<1>1. HandlersOK /\ disk \in DB /\ pending \in [Keys -> PendingStatus \cup {None}]
  BY DEF Inv, TypeOK
<1>2. Key(h) \in Keys /\ handler[h].got \in PendingStatus \cup {"Rejected"}
  BY <1>1 DEF HandlersOK, HandlerOK, Key, write_pending, At
<1>3. HandlersOK'
  BY <1>1, ReplyOK DEF write_pending
<1>4. UNCHANGED <<chain, up>>
  BY DEF write_pending
<1>5. CASE UNCHANGED <<disk, pending>>
  BY <1>3, <1>4, <1>5, DiskUnchanged
<1>6. CASE handler[h].got # "Rejected" /\ PendingWritten(h)
  <2> DEFINE g == handler[h].got
  <2>1. g \in PendingStatus
    BY <1>2, <1>6
  <2>2. disk' \in DB
    BY <2>1, <1>1, <1>2, <1>6, WritePendingKeepsDB DEF PendingWritten
  <2>3. pending' \in [Keys -> PendingStatus \cup {None}]
    BY <2>1, <1>1, <1>2, <1>6 DEF PendingWritten
  <2>4. ASSUME NEW k \in Keys, k # Key(h)
        PROVE  disk'.pending[k] = disk.pending[k] /\ pending'[k] = pending[k]
    BY <2>4, <1>1, <1>2, <1>6 DEF PendingWritten, DB
  <2>5. disk'.pending[Key(h)] # None /\ pending'[Key(h)] # None
    BY <2>1, <1>1, <1>2, <1>6 DEF PendingWritten, DB, NoneAssumption
  <2>6. PendingSurvivesRestart'
    BY <2>4, <2>5, <1>4 DEF Inv, PendingSurvivesRestart, Counted
  <2>. QED BY <2>2, <2>3, <2>6, <1>3, <1>4 DEF Inv, TypeOK, Counted
<1>7. CASE disk' = [disk EXCEPT !.pending[Key(h)] = "Torn"] /\ UNCHANGED pending
  <2>1. disk' \in DB
    BY <1>1, <1>2, <1>7, WritePendingKeepsDB
  <2>2. ASSUME NEW k \in Keys, k # Key(h)
        PROVE  disk'.pending[k] = disk.pending[k]
    BY <2>2, <1>1, <1>2, <1>7 DEF DB
  <2>3. disk'.pending[Key(h)] = "Torn"
    BY <1>1, <1>2, <1>7 DEF DB
  <2>4. PendingSurvivesRestart'
    BY <2>2, <2>3, <1>4, <1>7 DEF Inv, PendingSurvivesRestart, NoneAssumption, Counted
  <2>. QED BY <2>1, <2>4, <1>3, <1>4, <1>7 DEF Inv, TypeOK, Counted
<1>. QED BY <1>5, <1>6, <1>7 DEF write_pending

(* What delete_all and mark_finalized do to what is pending. *)
LEMMA DeleteAllOK ==
  ASSUME NEW d \in DB, NEW k \in Keys, NEW done \in SUBSET DeleteSteps
  PROVE  /\ delete_all(d, k, done) \in DB
         /\ delete_all(d, k, done).pending =
              IF "pending" \in done THEN [d.pending EXCEPT ![k] = None] ELSE d.pending
<1> DEFINE one == IF "revocation" \in done THEN Moved(d, "revocation", "backup_revocation", k) ELSE d
           two == IF "identity" \in done THEN Moved(one, "identity", "backup_identity", k) ELSE one
<1>1. None \in File
  BY DEF File
<1>2. one \in DB /\ one.pending = d.pending
  <2>1. Moved(d, "revocation", "backup_revocation", k) \in DB
    BY <1>1, MovedOK
  <2>2. Moved(d, "revocation", "backup_revocation", k).pending = d.pending
    BY DEF Moved, DB
  <2>. QED BY <2>1, <2>2
<1>3. two \in DB /\ two.pending = d.pending
  <2> HIDE DEF one
  <2>1. Moved(one, "identity", "backup_identity", k) \in DB
    BY <1>1, <1>2, MovedOK
  <2>2. Moved(one, "identity", "backup_identity", k).pending = one.pending
    BY <1>2 DEF Moved, DB
  <2>. QED BY <2>1, <2>2, <1>2
<1>4. delete_all(d, k, done) = IF "pending" \in done THEN [two EXCEPT !.pending[k] = None] ELSE two
  BY DEF delete_all
<1> HIDE DEF two, one
<1>5. [two EXCEPT !.pending[k] = None] \in DB
  BY <1>3 DEF DB
<1>6. [two EXCEPT !.pending[k] = None].pending = [d.pending EXCEPT ![k] = None]
  BY <1>3 DEF DB
<1>. QED BY <1>3, <1>4, <1>5, <1>6

(* A follow-up applies its answer. *)
LEMMA FollowupEndOK ==
  ASSUME NoneAssumption, Inv, Counted, NEW h \in Handlers, followup_end(h)
  PROVE  Inv'
<1>1. HandlersOK /\ disk \in DB /\ pending \in [Keys -> PendingStatus \cup {None}]
  BY DEF Inv, TypeOK
<1> DEFINE k == Key(h)
<1>2. k \in Keys
  BY <1>1 DEF HandlersOK, HandlerOK, Key, followup_end, At
<1>3. HandlersOK'
  BY <1>1, GotoOK DEF followup_end, At, Serving, Following
<1>4. UNCHANGED <<chain, up>>
  BY DEF followup_end
<1>5. CASE UNCHANGED <<disk, pending>>
  BY <1>3, <1>4, <1>5, DiskUnchanged
<1>6. CASE /\ pending[k] # None /\ handler[h].got \in PendingStatus
           /\ pending' = [pending EXCEPT ![k] = handler[h].got] /\ UNCHANGED disk
  <2>1. pending' \in [Keys -> PendingStatus \cup {None}]
    BY <1>1, <1>2, <1>6
  <2>2. \A j \in Keys : pending'[j] # None <=> pending[j] # None
    BY <1>1, <1>2, <1>6 DEF NoneAssumption
  <2>3. PendingSurvivesRestart'
    BY <2>2, <1>4, <1>6 DEF Inv, PendingSurvivesRestart, Counted
  <2>. QED BY <2>1, <2>3, <1>1, <1>3, <1>4, <1>6 DEF Inv, TypeOK, Counted
<1>7. CASE /\ pending' = [pending EXCEPT ![k] = None]
           /\ \/ \E done \in SUBSET DeleteSteps :
                   disk' = delete_all(disk, k, done) /\ Logged(done = DeleteSteps)
              \/ \E removed \in BOOLEAN :
                   disk' = mark_finalized(disk, k, removed) /\ Logged(removed)
  <2> DEFINE removal == [disk.pending EXCEPT ![k] = None]
  <2>1. /\ disk' \in DB
        /\ \/ disk'.pending = removal
           \/ "remove" \in FailureKinds /\ failures' # 0 /\ disk'.pending = disk.pending
    <3>1. CASE \E done \in SUBSET DeleteSteps :
                 disk' = delete_all(disk, k, done) /\ Logged(done = DeleteSteps)
      <4>1. PICK done \in SUBSET DeleteSteps :
              disk' = delete_all(disk, k, done) /\ Logged(done = DeleteSteps)
        BY <3>1
      <4>2. disk' \in DB /\ disk'.pending = IF "pending" \in done THEN removal ELSE disk.pending
        BY <4>1, <1>1, <1>2, DeleteAllOK
      <4>3. "pending" \notin done => "remove" \in FailureKinds /\ failures' # 0
        <5>1. "pending" \notin done => done # DeleteSteps
          BY DEF DeleteSteps
        <5>. QED BY <4>1, <5>1 DEF Logged, Fails, Inv, TypeOK
      <4>. QED BY <4>2, <4>3
    <3>2. CASE \E removed \in BOOLEAN :
                 disk' = mark_finalized(disk, k, removed) /\ Logged(removed)
      <4>1. PICK removed \in BOOLEAN :
              disk' = mark_finalized(disk, k, removed) /\ Logged(removed)
        BY <3>2
      <4>2. CASE removed
        BY <4>1, <4>2, <1>1, <1>2, WritePendingKeepsDB DEF mark_finalized, DB
      <4>3. CASE ~ removed
        BY <4>1, <4>3, <1>1 DEF mark_finalized, Logged, Fails, Inv, TypeOK
      <4>. QED BY <4>2, <4>3
    <3>. QED BY <3>1, <3>2, <1>7
  <2>2. pending' \in [Keys -> PendingStatus \cup {None}]
    BY <1>1, <1>2, <1>7
  <2>3. disk.pending \in [Keys -> PendingStatus \cup {None, "Torn"}]
    BY <1>1 DEF DB
  <2>4. PendingSurvivesRestart'
    <3>1. \A j \in Keys : pending'[j] = IF j = k THEN None ELSE pending[j]
      BY <1>1, <1>2, <1>7
    <3>2. \A j \in Keys :
            \/ disk'.pending[j] = IF j = k THEN None ELSE disk.pending[j]
            \/ "remove" \in FailureKinds /\ failures' # 0 /\ disk'.pending[j] = disk.pending[j]
      BY <2>1, <2>3, <1>2
    <3>. QED BY <3>1, <3>2, <1>4 DEF Inv, PendingSurvivesRestart, Counted
  <2>. QED BY <2>1, <2>2, <2>4, <1>3, <1>4 DEF Inv, TypeOK, Counted
<1>. QED BY <1>5, <1>6, <1>7 DEF followup_end

(* One step of a handler. *)
LEMMA StepOK ==
  ASSUME NoneAssumption, Inv, Counted, NEW h \in Handlers, Step(h)
  PROVE  Inv'
<1>1. HandlersOK
  BY DEF Inv, TypeOK
<1>2. HandlerOK(handler[h])
  BY <1>1 DEF HandlersOK
<1>3. CASE save_validated_request(h) \/ save_validated_request_v1(h)
  BY <1>3, WriteOK DEF save_validated_request, save_validated_request_v1, Serves, At, Serving, NoneAssumption
<1>4. CASE sign_identity_object(h) \/ sign_identity_object_v1(h)
  <2>1. handler[h].pc = "Attributes" /\ AttributesArrive(h)
    BY <1>4 DEF sign_identity_object, sign_identity_object_v1, Serves, At
  <2>2. HandlersOK'
    <3>1. CASE Goto(h, "Revocation")
      BY <2>1, <3>1, <1>1, <1>2, GotoOK DEF Serving, HandlerOK
    <3>2. CASE \E what : Reply(h, Key(h), what)
      BY <3>2, <1>1, ReplyOK
    <3>. QED BY <2>1, <3>1, <3>2 DEF AttributesArrive
  <2>. QED BY <2>1, <2>2, DiskUnchanged DEF AttributesArrive
<1>5. CASE save_revocation_record(h) \/ save_revocation_record_v1(h)
  BY <1>5, WriteOK DEF save_revocation_record, save_revocation_record_v1, Serves, At, Serving
<1>6. CASE write_identity_object(h)
  BY <1>6, WriteOK DEF write_identity_object, Serves, At, Serving
<1>7. CASE write_identity_object_v1(h)
  BY <1>7, WriteOK DEF write_identity_object_v1, Serves, At, Serving, NoneAssumption
<1>8. CASE submit(h)
  BY <1>8, SubmitOK DEF submit, At
<1>9. CASE write_pending(h)
  BY <1>9, WritePendingOK
<1>10. CASE resubmit(h)
  BY <1>10, SubmitOK DEF resubmit, At
<1>11. CASE query_submission_status(h)
  <2>1. Key(h) \in Keys /\ handler[h].pc = "Query"
    BY <1>11, <1>2 DEF HandlerOK, Key, query_submission_status, At
  <2>2. chain[Key(h)] \in Answers
    BY <2>1 DEF Inv, TypeOK, Answers
  <2>3. HandlersOK'
    <3>1. CASE handler' = [handler EXCEPT ![h].got = chain[Key(h)], ![h].pc = "Followup"]
      BY <2>1, <2>2, <3>1, <1>1, GotOK
    <3>2. CASE Goto(h, "Respond")
      BY <2>1, <3>2, <1>1, GotoOK DEF Serving, Following
    <3>. QED BY <3>1, <3>2, <1>11 DEF query_submission_status
  <2>. QED BY <2>3, <1>11, DiskUnchanged DEF query_submission_status
<1>12. CASE followup_end(h)
  BY <1>12, FollowupEndOK
<1>13. CASE get_identity_token(h)
  <2>1. HandlersOK'
    <3>1. CASE Goto(h, "Read")
      BY <3>1, <1>1, <1>13, GotoOK DEF Serving, Following, get_identity_token, At
    <3>. QED BY <3>1, <1>1, <1>13, ReplyOK DEF get_identity_token
  <2>. QED BY <2>1, <1>13, DiskUnchanged DEF get_identity_token
<1>14. CASE read_identity_object(h)
  <2>1. HandlersOK'
    BY <1>1, <1>14, ReplyOK DEF read_identity_object
  <2>. QED BY <2>1, <1>14, DiskUnchanged DEF read_identity_object
<1>. QED
  BY <1>3, <1>4, <1>5, <1>6, <1>7, <1>8, <1>9, <1>10, <1>11, <1>12, <1>13  , <1>14
     DEF Step

(* A request is validated: a handler replies, or goes to save it. *)
LEMMA ValidateOK ==
  ASSUME Inv, Counted, NEW h \in Handlers, NEW k \in Keys, NEW r \in Requests, NEW v \in Versions,
         NEW valid, validate_worker(h, k, [req |-> r, ver |-> v], valid)
  PROVE  Inv'
<1>1. HandlersOK
  BY DEF Inv, TypeOK
<1> DEFINE f == [req |-> r, ver |-> v]
<1>2. f \in Record /\ f \in File
  BY DEF Record, File
<1>3. HandlersOK'
  <2> DEFINE x == [Idle EXCEPT !.pc = "SaveRequest", !.key = k, !.file = f]
  <2>1. CASE handler' = [handler EXCEPT ![h] = x]
    <3> HIDE DEF f
    <3>1. x \in [pc : {"SaveRequest"}, key : {k}, file : {f}, got : {None}]
      BY DEF Idle
    <3> HIDE DEF x
    <3>. QED BY <2>1, <3>1, <1>1, <1>2, BeginOK DEF Serving
  <2>. QED BY <1>1, <2>1, ReplyOK DEF validate_worker
<1>. QED BY <1>3, DiskUnchanged DEF validate_worker

(* A call arrives at the service. *)
LEMMA ArrivesOK ==
  ASSUME Inv, Counted, NEW h \in Handlers, NEW k \in Keys, Arrives(h, k)
  PROVE  Inv'
<1>1. HandlersOK /\ disk \in DB /\ pending \in [Keys -> PendingStatus \cup {None}]
  BY DEF Inv, TypeOK
<1>2. CASE \E what : Reply(h, k, what) /\ UNCHANGED <<disk, pending, chain, up>>
  BY <1>1, <1>2, ReplyOK, DiskUnchanged
<1>3. CASE \E r \in Requests, valid \in BOOLEAN, v \in Versions :
             validate_worker(h, k, [req |-> r, ver |-> v], valid)
  BY <1>3, ValidateOK
<1>4. CASE \E v \in Versions : read_request_record(h, k, v)
  <2>1. PICK v \in Versions : read_request_record(h, k, v)
    BY <1>4
  <2>2. disk.requests[k] \in File
    BY <1>1 DEF DB
  <2> DEFINE f == disk.requests[k]
             x == [pc |-> "Attributes", key |-> k, file |-> f, got |-> None]
  <2>3. x \in [pc : {"Attributes"}, key : {k}, file : {f}, got : {None}]
    OBVIOUS
  <2>4. HandlersOK'
    <3>1. CASE Whole(f) /\ handler' = [handler EXCEPT ![h] = x]
      <4>1. f \in Record
        BY <2>2, <3>1, WholeFilesAreRecords
      <4>2. PICK g \in Record : \E y \in [pc : {"Attributes"}, key : {k}, file : {g}, got : {None}] :
              handler' = [handler EXCEPT ![h] = y]
        BY <2>3, <3>1, <4>1
      <4>3. g \in File
        BY DEF File, Record
      <4>. QED BY <4>2, <4>3, <1>1, BeginOK DEF Serving
    <3>. QED BY <2>1, <3>1, <1>1, ReplyOK DEF read_request_record
  <2>. QED BY <2>1, <2>4, DiskUnchanged DEF read_request_record
<1>5. CASE followup(h, k)
  <2>1. \E pc \in Following \cup {"Respond"} :
          handler' = [handler EXCEPT ![h] = [Idle EXCEPT !.key = k, !.pc = pc]]
    <3>1. pending[k] \in {None, CouldNotSubmit, Submitted}
      BY <1>1 DEF PendingStatus
    <3>. QED BY <3>1, <1>5 DEF followup, Following
  <2>2. PICK pc \in Following :
          handler' = [handler EXCEPT ![h] = [Idle EXCEPT !.key = k, !.pc = pc]]
    BY <2>1 DEF Following
  <2> DEFINE x == [Idle EXCEPT !.key = k, !.pc = pc]
  <2>3. x \in [pc : {pc}, key : {k}, file : {None}, got : {None}]
    BY DEF Idle
  <2>4. HandlersOK'
    <3>1. None \in File /\ pc \notin Serving
      BY DEF Following, Serving, File
    <3>2. handler' = [handler EXCEPT ![h] = x]
      BY <2>2
    <3> HIDE DEF x
    <3>. QED BY <2>3, <3>1, <3>2, <1>1, BeginOK DEF Serving
  <2>. QED BY <2>4, <1>5, DiskUnchanged DEF followup
<1>6. CASE \/ get_identity_token_v1(h, k)
           \/ \E v \in Versions : create_failed_identity(h, k, v)
           \/ \E b \in BOOLEAN : validate_recovery_request(h, k, b)
           \/ \E b \in BOOLEAN : retrieve_failed_identity_token(h, k, b)
           \/ Malformed(h, k)
  BY <1>2, <1>6 DEF get_identity_token_v1, create_failed_identity, validate_recovery_request,
       retrieve_failed_identity_token, Malformed
<1>. QED
  BY <1>3, <1>4, <1>5, <1>6 DEF Arrives, extract_and_validate_request,
     extract_and_validate_request_query, extract_and_validate_request_query_v1, Versions,
     create_signed_identity_object, create_signed_identity_object_v1

(* What a crash may leave. *)
LEMMA CrashCases ==
  ASSUME Inv, NEW d \in DiskAtCrash
  PROVE  \/ d = disk
         \/ \E done \in SUBSET DeleteSteps, k \in Keys : d = delete_all(disk, k, done)
         \/ \E k \in Keys, dir \in {"requests", "revocation", "identity"} :
              d = [disk EXCEPT ![dir][k] = Torn]
         \/ \E k \in Keys : d = [disk EXCEPT !.pending[k] = "Torn"]
<1>1. \A h \in Handlers : handler[h].pc # "Idle" => Key(h) \in Keys
  BY DEF Inv, TypeOK, HandlersOK, HandlerOK, Key
<1>2. CASE d = disk
  BY <1>2
<1>3. CASE d \in HalfDeleted
  <2>1. PICK done \in SUBSET (DeleteSteps \ {"pending"}), h \in Handlers :
          handler[h].pc = "Followup" /\ d = delete_all(disk, Key(h), done)
    BY <1>3 DEF HalfDeleted
  <2>2. done \in SUBSET DeleteSteps /\ Key(h) \in Keys
    BY <2>1, <1>1
  <2>. QED BY <2>1, <2>2
<1>4. CASE \E h \in Handlers :
             handler[h].pc # "Idle" /\ d = [disk EXCEPT !.pending[Key(h)] = "Torn"]
  BY <1>1, <1>4
<1>5. CASE d \in {[disk EXCEPT ![IF handler[h].pc = "SaveRequest" THEN "requests"
                        ELSE IF handler[h].pc = "Revocation" THEN "revocation" ELSE "identity"]
                       [Key(h)] = Torn] :
            h \in {g \in Handlers : handler[g].pc \in {"SaveRequest", "Revocation", "Identity"}}}
  <2>1. PICK h \in {g \in Handlers : handler[g].pc \in {"SaveRequest", "Revocation", "Identity"}} :
          d = [disk EXCEPT ![IF handler[h].pc = "SaveRequest" THEN "requests"
                 ELSE IF handler[h].pc = "Revocation" THEN "revocation" ELSE "identity"]
                 [Key(h)] = Torn]
    BY <1>5
  <2>. QED BY <2>1, <1>1
<1>. QED
  BY <1>2, <1>3, <1>4, <1>5 DEF DiskAtCrash

LEMMA DiskAtCrashOK ==
  ASSUME Inv, NEW d \in DiskAtCrash
  PROVE  d \in DB
<1>1. disk \in DB
  BY DEF Inv, TypeOK
<1>2. Torn \in File
  BY DEF File
<1>3. CASE \E done \in SUBSET DeleteSteps, k \in Keys : d = delete_all(disk, k, done)
  <2>1. PICK done \in SUBSET DeleteSteps, k \in Keys : d = delete_all(disk, k, done)
    BY <1>3
  <2>. QED BY <2>1, <1>1, DeleteAllOK
<1>4. CASE \E k \in Keys, dir \in {"requests", "revocation", "identity"} :
             d = [disk EXCEPT ![dir][k] = Torn]
  <2>1. PICK k \in Keys, dir \in {"requests", "revocation", "identity"} :
          d = [disk EXCEPT ![dir][k] = Torn]
    BY <1>4
  <2>. QED BY <2>1, <1>1, <1>2, WriteKeepsDB
<1>5. CASE \E k \in Keys : d = [disk EXCEPT !.pending[k] = "Torn"]
  BY <1>1, <1>5, WritePendingKeepsDB
<1>. QED BY <1>1, <1>3, <1>4, <1>5, CrashCases

(* The inductive invariant. *)
LEMMA InvInductive ==
  ASSUME NoneAssumption
  PROVE  (Init => Inv) /\ (Inv /\ [Next]_vars => Inv')
<1>1. Init => Inv
  <2>. SUFFICES ASSUME Init PROVE Inv
    OBVIOUS
  <2>1. disk \in DB
    BY DEF Init, DB, Empty, File
  <2>2. HandlersOK
    BY IdleOK DEF Init, HandlersOK, HandlerOK
  <2>3. PendingSurvivesRestart
    BY DEF Init, PendingSurvivesRestart, Empty
  <2>. QED BY <2>1, <2>2, <2>3 DEF Inv, TypeOK, Init, Empty
<1>2. ASSUME Inv, [Next]_vars PROVE Inv'
  <2>0. Counted
    BY <1>2, FailuresCount DEF Inv, TypeOK
  <2>1. CASE \E h \in Handlers : Step(h) \/ \E k \in Keys : Arrives(h, k)
    BY <2>0, <2>1, <1>2, StepOK, ArrivesOK
  <2>2. CASE \E k \in Keys : submit_verification_attributes(k)
    BY <2>0, <2>2, <1>2, DiskUnchanged DEF submit_verification_attributes, Inv, TypeOK, HandlersOK, HandlerOK
  <2>3. CASE \E k \in Keys : ChainAdvances(k)
    BY <2>3, <1>2 DEF ChainAdvances, Inv, TypeOK, HandlersOK, HandlerOK, PendingSurvivesRestart
  <2>4. CASE Crash
    <3>1. HandlersOK'
      BY <2>4, IdleOK DEF Crash, HandlersOK, HandlerOK
    <3>2. disk' \in DB
      BY <2>4, <1>2, DiskAtCrashOK DEF Crash
    <3>. QED BY <3>1, <3>2, <2>4, <1>2 DEF Crash, Inv, TypeOK, PendingSurvivesRestart, Empty
  <2>5. CASE Restart
    <3>1. disk.pending \in [Keys -> PendingStatus \cup {None, "Torn"}]
      BY <1>2 DEF Inv, TypeOK, DB
    <3>2. HandlersOK'
      BY <2>5, <1>2 DEF Restart, Inv, TypeOK, HandlersOK, HandlerOK
    <3>. QED BY <3>1, <3>2, <2>5, <1>2 DEF Restart, Inv, TypeOK, PendingSurvivesRestart
  <2>6. CASE UNCHANGED vars
    BY <2>6, <1>2 DEF vars, Inv, TypeOK, HandlersOK, HandlerOK, PendingSurvivesRestart
  <2>. QED BY <2>1, <2>2, <2>3, <2>4, <2>5, <2>6, <1>2 DEF Next
<1>. QED BY <1>1, <1>2

(* What the service keeps, on disk and in memory, is always of its shape:  *)
(* a handler that is about to write holds the request it was made from.    *)
THEOREM TypeCorrect ==
  ASSUME NoneAssumption
  PROVE  Spec => []TypeOK
<1>1. Inv => TypeOK
  BY DEF Inv
<1>. QED BY <1>1, InvInductive, PTL DEF Spec

(* Whatever crashes and fails, each entry of the table of pending          *)
(* submissions has its file, so that DB::new rebuilds it; and a file       *)
(* without an entry is left only by the removal of a file that failed.     *)
THEOREM PendingSurvivesRestartHolds ==
  ASSUME NoneAssumption
  PROVE  Spec => []PendingSurvivesRestart
<1>1. Inv => PendingSurvivesRestart
  BY DEF Inv
<1>. QED BY <1>1, InvInductive, PTL DEF Spec

-----------------------------------------------------------------------------
(* The revocation record comes before the identity object.                 *)

(* The record of a holder is there, or was moved to the backup and nothing *)
(* is in its place.                                                        *)
Traceable(d, k) ==
  Whole(d.revocation[k]) \/ (d.revocation[k] = None /\ Whole(d.backup_revocation[k]))

(* While a handler is about to write an identity object, its holder can be *)
(* traced.                                                                 *)
RecordBeforeIdentity ==
  \A h \in Handlers : handler[h].pc = "Identity" => Traceable(disk, Key(h))

(* What most steps do not do: bring a handler to the point of writing an   *)
(* identity object, lose a record, or make an identity object.             *)
NoneEnters ==
  \A g \in Handlers : handler'[g].pc = "Identity" =>
    handler[g].pc = "Identity" /\ handler'[g].key = handler[g].key
RecordsStay == \A k \in Keys : Traceable(disk, k) => Traceable(disk', k)
NoIdentityMade == \A k \in Keys : Whole(disk'.identity[k]) => Whole(disk.identity[k])

LEMMA QuietStep ==
  ASSUME TypeOK, RecordBeforeIdentity, NoneEnters, RecordsStay, NoIdentityMade
  PROVE  RecordBeforeIdentity' /\ RecordIsThere
<1>1. \A g \in Handlers : handler[g].pc = "Identity" => Key(g) \in Keys
  BY DEF TypeOK, HandlersOK, HandlerOK, Key
<1>2. RecordBeforeIdentity'
  BY <1>1 DEF RecordBeforeIdentity, NoneEnters, RecordsStay, Key
<1>3. RecordIsThere
  BY DEF NoIdentityMade, RecordIsThere
<1>. QED BY <1>2, <1>3

LEMMA SameDisk ==
  ASSUME disk'.revocation = disk.revocation, disk'.identity = disk.identity,
         disk'.backup_revocation = disk.backup_revocation
  PROVE  RecordsStay /\ NoIdentityMade
BY DEF RecordsStay, NoIdentityMade, Traceable

(* A handler that is set to a point other than that one. *)
LEMMA SetElsewhere ==
  ASSUME HandlersOK, NEW h \in Handlers, NEW x, x.pc # "Identity",
         handler' = [handler EXCEPT ![h] = x]
  PROVE  NoneEnters
BY DEF HandlersOK, NoneEnters

LEMMA ReplyElsewhere ==
  ASSUME HandlersOK, NEW h \in Handlers, NEW k, NEW what, Reply(h, k, what)
  PROVE  NoneEnters
<1>1. Idle.pc # "Identity"
  BY DEF Idle
<1>. QED BY <1>1, SetElsewhere DEF Reply

LEMMA GotoElsewhere ==
  ASSUME HandlersOK, NEW h \in Handlers, NEW pc, pc # "Identity", Goto(h, pc)
  PROVE  NoneEnters
<1>1. handler' = [handler EXCEPT ![h] = [handler[h] EXCEPT !.pc = pc]]
  BY DEF Goto, HandlersOK
<1>2. [handler[h] EXCEPT !.pc = pc].pc # "Identity"
  BY DEF HandlersOK, HandlerState
<1>. QED BY <1>1, <1>2, SetElsewhere

LEMMA GotElsewhere ==
  ASSUME HandlersOK, NEW h \in Handlers, NEW got, NEW pc, pc # "Identity",
         handler' = [handler EXCEPT ![h].got = got, ![h].pc = pc]
  PROVE  NoneEnters
<1>1. handler' = [handler EXCEPT ![h] = [handler[h] EXCEPT !.got = got, !.pc = pc]]
  BY DEF HandlersOK
<1>2. [handler[h] EXCEPT !.got = got, !.pc = pc].pc # "Identity"
  BY DEF HandlersOK, HandlerState
<1>. QED BY <1>1, <1>2, SetElsewhere

(* A write that does not fail. *)
LEMMA WriteSucceeds ==
  ASSUME TypeOK, "write" \notin FailureKinds, NEW h \in Handlers, handler[h].pc \in Serving,
         NEW dir, NEW next, NEW done, Write(h, dir, next, done)
  PROVE  /\ disk' = [disk EXCEPT ![dir][Key(h)] = handler[h].file]
         /\ IF done = None THEN Goto(h, next) ELSE Reply(h, Key(h), done)
         /\ Key(h) \in Keys /\ handler[h].file \in Record /\ HandlersOK /\ disk \in DB
BY DEF Write, Fails, TypeOK, HandlersOK, HandlerOK, Key, Serving

(* delete_all moves what it removes. *)
LEMMA DeleteAllKeepsRecords ==
  ASSUME NEW d \in DB, NEW k \in Keys, NEW done \in SUBSET DeleteSteps, NEW j \in Keys
  PROVE  /\ Traceable(d, j) => Traceable(delete_all(d, k, done), j)
         /\ Whole(delete_all(d, k, done).identity[j]) => Whole(d.identity[j])
<1> DEFINE moved == Moved(d, "revocation", "backup_revocation", k)
           one == IF "revocation" \in done THEN moved ELSE d
           also == Moved(one, "identity", "backup_identity", k)
           two == IF "identity" \in done THEN also ELSE one
<1>1. None \in File /\ ~ Whole(None)
  BY DEF File, Whole
<1>2. moved \in DB /\ moved.identity = d.identity /\ (Traceable(d, j) => Traceable(moved, j))
  <2>1. moved \in DB
    BY <1>1, MovedOK
  <2>2. moved.identity = d.identity
    BY DEF Moved, DB
  <2>3. CASE moved = d
    BY <2>1, <2>2, <2>3
  <2>4. CASE /\ d.revocation[k] # None
             /\ moved = [d EXCEPT !["backup_revocation"][k] = d["revocation"][k], !["revocation"][k] = None]
    <3>1. moved.revocation = [d.revocation EXCEPT ![k] = None]
      BY <2>4 DEF DB
    <3>2. moved.backup_revocation = [d.backup_revocation EXCEPT ![k] = d.revocation[k]]
      BY <2>4 DEF DB
    <3>3. d.revocation \in [Keys -> File] /\ d.backup_revocation \in [Keys -> File]
      BY DEF DB
    <3> HIDE DEF moved
    <3>4. Traceable(d, j) => Traceable(moved, j)
      BY <1>1, <2>4, <3>1, <3>2, <3>3 DEF Traceable
    <3>. QED BY <2>1, <2>2, <3>4
  <2>. QED BY <2>3, <2>4 DEF Moved
<1>3. one \in DB /\ one.identity = d.identity /\ (Traceable(d, j) => Traceable(one, j))
  <2> HIDE DEF moved
  <2>. QED BY <1>2
<1>4. /\ two \in DB /\ two.revocation = one.revocation
      /\ two.backup_revocation = one.backup_revocation
      /\ Whole(two.identity[j]) => Whole(one.identity[j])
  <2> HIDE DEF one
  <2>1. also \in DB
    BY <1>1, <1>3, MovedOK
  <2>2. also.revocation = one.revocation /\ also.backup_revocation = one.backup_revocation
    BY <1>3 DEF Moved, DB
  <2>3. also.identity[j] \in {None, one.identity[j]}
    BY <1>3 DEF Moved, DB
  <2> HIDE DEF also
  <2>. QED BY <1>1, <1>3, <2>1, <2>2, <2>3
<1>5. delete_all(d, k, done) = IF "pending" \in done THEN [two EXCEPT !.pending[k] = None] ELSE two
  BY DEF delete_all
<1> HIDE DEF two, also, one, moved
<1> DEFINE three == [two EXCEPT !.pending[k] = None]
<1>6. /\ three.revocation = two.revocation /\ three.backup_revocation = two.backup_revocation
      /\ three.identity = two.identity
  BY <1>4 DEF DB
<1> HIDE DEF three
<1>7. delete_all(d, k, done) \in {two, three}
  BY <1>5 DEF three
<1>. QED BY <1>3, <1>4, <1>6, <1>7 DEF Traceable

LEMMA StepIsTraced ==
  ASSUME NoneAssumption, "write" \notin FailureKinds, Inv, RecordBeforeIdentity,
         NEW h \in Handlers, Step(h)
  PROVE  RecordBeforeIdentity' /\ RecordIsThere
<1>1. TypeOK /\ HandlersOK /\ disk \in DB /\ HandlerOK(handler[h])
  BY DEF Inv, TypeOK, HandlersOK
<1>2. ASSUME UNCHANGED disk, NoneEnters PROVE RecordBeforeIdentity' /\ RecordIsThere
  BY <1>1, <1>2, SameDisk, QuietStep
<1>3. CASE save_validated_request(h) \/ save_validated_request_v1(h)
  <2>1. handler[h].pc \in Serving /\ Write(h, "requests", None, "Verify") /\ "Verify" # None
    BY <1>3 DEF save_validated_request, save_validated_request_v1, Serves, At, Serving, NoneAssumption
  <2>2. disk' = [disk EXCEPT !["requests"][Key(h)] = handler[h].file] /\ Reply(h, Key(h), "Verify")
    BY <2>1, <1>1, WriteSucceeds
  <2>3. RecordsStay /\ NoIdentityMade
    BY <2>2, <1>1, SameDisk DEF DB
  <2>4. NoneEnters
    BY <2>2, <1>1, ReplyElsewhere
  <2>. QED BY <2>3, <2>4, <1>1, QuietStep
<1>4. CASE sign_identity_object(h) \/ sign_identity_object_v1(h)
  <2>1. NoneEnters
    BY <1>4, <1>1, ReplyElsewhere, GotoElsewhere
       DEF sign_identity_object, sign_identity_object_v1, AttributesArrive
  <2>. QED BY <2>1, <1>2, <1>4 DEF sign_identity_object, sign_identity_object_v1, AttributesArrive
<1>5. CASE save_revocation_record(h) \/ save_revocation_record_v1(h)
  <2>1. handler[h].pc \in Serving /\ Write(h, "revocation", "Identity", None)
    BY <1>5 DEF save_revocation_record, save_revocation_record_v1, Serves, At, Serving
  <2>2. /\ disk' = [disk EXCEPT !["revocation"][Key(h)] = handler[h].file]
        /\ Goto(h, "Identity") /\ Key(h) \in Keys /\ handler[h].file \in Record
    BY <2>1, <1>1, WriteSucceeds
  <2>3. /\ disk'.revocation = [disk.revocation EXCEPT ![Key(h)] = handler[h].file]
        /\ disk'.identity = disk.identity /\ disk'.backup_revocation = disk.backup_revocation
        /\ disk.revocation \in [Keys -> File]
    BY <2>2, <1>1 DEF DB
  <2>4. Whole(handler[h].file)
    BY <2>2, RecordsAreWhole
  <2>5. RecordsStay /\ Traceable(disk', Key(h))
    <3>1. disk'.revocation[Key(h)] = handler[h].file
      BY <2>2, <2>3
    <3>2. Traceable(disk', Key(h))
      BY <2>4, <3>1 DEF Traceable
    <3>3. ASSUME NEW k \in Keys, k # Key(h), Traceable(disk, k) PROVE Traceable(disk', k)
      <4>1. disk'.revocation[k] = disk.revocation[k]
        BY <2>2, <2>3, <3>3
      <4>. QED BY <2>3, <3>3, <4>1 DEF Traceable
    <3>. QED BY <3>2, <3>3 DEF RecordsStay
  <2>6. \A g \in Handlers : /\ handler'[g].key = handler[g].key
                            /\ g # h => handler'[g].pc = handler[g].pc
    BY <2>2, <1>1 DEF Goto, HandlersOK, HandlerState
  <2>7. \A g \in Handlers : handler[g].pc = "Identity" => Key(g) \in Keys
    BY <1>1 DEF HandlersOK, HandlerOK, Key
  <2>8. RecordBeforeIdentity'
    BY <2>5, <2>6, <2>7 DEF RecordBeforeIdentity, RecordsStay, Key
  <2>9. RecordIsThere
    BY <2>3 DEF RecordIsThere
  <2>. QED BY <2>8, <2>9
<1>6. CASE write_identity_object(h) \/ write_identity_object_v1(h)
  <2>1. PICK next \in {"Submit", None}, done \in {None, "Created"} :
          Write(h, "identity", next, done) /\ (done = None => next = "Submit")
    <3>1. "Created" # None
      BY DEF NoneAssumption
    <3>2. Write(h, "identity", "Submit", None) \/ Write(h, "identity", None, "Created")
      BY <1>6 DEF write_identity_object, write_identity_object_v1
    <3>. QED BY <3>1, <3>2
  <2>2. handler[h].pc \in Serving /\ handler[h].pc = "Identity"
    BY <1>6 DEF write_identity_object, write_identity_object_v1, Serves, At, Serving
  <2>3. /\ disk' = [disk EXCEPT !["identity"][Key(h)] = handler[h].file]
        /\ IF done = None THEN Goto(h, next) ELSE Reply(h, Key(h), done)
        /\ Key(h) \in Keys
    BY <2>1, <2>2, <1>1, WriteSucceeds
  <2>4. NoneEnters
    BY <2>1, <2>3, <1>1, ReplyElsewhere, GotoElsewhere
  <2>5. /\ disk'.revocation = disk.revocation /\ disk'.backup_revocation = disk.backup_revocation
        /\ disk'.identity = [disk.identity EXCEPT ![Key(h)] = handler[h].file]
        /\ disk.identity \in [Keys -> File]
    BY <2>3, <1>1 DEF DB
  <2>6. RecordBeforeIdentity'
    <3>1. \A g \in Handlers : handler[g].pc = "Identity" => Traceable(disk', Key(g))
      BY <2>5 DEF RecordBeforeIdentity, Traceable
    <3>. QED BY <3>1, <2>4 DEF RecordBeforeIdentity, NoneEnters, Key
  <2>7. Traceable(disk, Key(h))
    BY <2>2 DEF RecordBeforeIdentity
  <2>8. RecordIsThere
    BY <2>5, <2>7 DEF RecordIsThere, Traceable
  <2>. QED BY <2>6, <2>8
<1>7. CASE submit(h)
  <2>1. \E got : handler' = [handler EXCEPT ![h].got = got, ![h].pc = "WritePending"]
    BY <1>7 DEF submit, submit_account_creation
  <2>2. NoneEnters
    BY <2>1, <1>1, GotElsewhere
  <2>. QED BY <2>2, <1>2, <1>7 DEF submit, submit_account_creation
<1>8. CASE resubmit(h)
  <2>1. \E got : handler' = [handler EXCEPT ![h].got = got, ![h].pc = "Followup"]
    BY <1>8 DEF resubmit, submit_account_creation
  <2>2. NoneEnters
    BY <2>1, <1>1, GotElsewhere
  <2>. QED BY <2>2, <1>2, <1>8 DEF resubmit, submit_account_creation
<1>9. CASE write_pending(h)
  <2>1. NoneEnters
    BY <1>1, <1>9, ReplyElsewhere DEF write_pending
  <2>2. CASE UNCHANGED disk
    BY <2>1, <2>2, <1>2
  <2>3. CASE PendingWritten(h)
    <3>1. RecordsStay /\ NoIdentityMade
      BY <2>3, <1>1, SameDisk DEF PendingWritten, DB
    <3>. QED BY <2>1, <3>1, <1>1, QuietStep
  <2>. QED BY <2>2, <2>3, <1>9 DEF write_pending, Fails
<1>10. CASE query_submission_status(h)
  <2>1. \/ \E got : handler' = [handler EXCEPT ![h].got = got, ![h].pc = "Followup"]
        \/ Goto(h, "Respond")
    BY <1>10 DEF query_submission_status
  <2>2. NoneEnters
    BY <2>1, <1>1, GotElsewhere, GotoElsewhere
  <2>. QED BY <2>2, <1>2, <1>10 DEF query_submission_status
<1>11. CASE followup_end(h)
  <2>1. NoneEnters
    BY <1>1, <1>11, GotoElsewhere DEF followup_end
  <2>2. Key(h) \in Keys
    BY <1>1, <1>11 DEF HandlerOK, Key, followup_end, At
  <2>3. CASE UNCHANGED disk
    BY <2>1, <2>3, <1>2
  <2>4. CASE \E done \in SUBSET DeleteSteps : disk' = delete_all(disk, Key(h), done)
    <3>1. \A j \in Keys : /\ Traceable(disk, j) => Traceable(disk', j)
                          /\ Whole(disk'.identity[j]) => Whole(disk.identity[j])
      BY <2>2, <2>4, <1>1, DeleteAllKeepsRecords
    <3>. QED BY <2>1, <3>1, <1>1, QuietStep DEF RecordsStay, NoIdentityMade
  <2>5. CASE \E removed \in BOOLEAN : disk' = mark_finalized(disk, Key(h), removed)
    <3>1. RecordsStay /\ NoIdentityMade
      BY <2>5, <1>1, SameDisk DEF mark_finalized, DB
    <3>. QED BY <2>1, <3>1, <1>1, QuietStep
  <2>. QED BY <2>3, <2>4, <2>5, <1>11 DEF followup_end
<1>12. CASE get_identity_token(h)
  BY <1>1, <1>2, <1>12, ReplyElsewhere, GotoElsewhere DEF get_identity_token
<1>13. CASE read_identity_object(h)
  BY <1>1, <1>2, <1>13, ReplyElsewhere DEF read_identity_object
<1>. QED
  BY <1>3, <1>4, <1>5, <1>6, <1>7, <1>8, <1>9, <1>10, <1>11, <1>12, <1>13 DEF Step

LEMMA ArrivesIsTraced ==
  ASSUME Inv, RecordBeforeIdentity, NEW h \in Handlers, NEW k \in Keys, Arrives(h, k)
  PROVE  RecordBeforeIdentity' /\ RecordIsThere
<1>1. TypeOK /\ HandlersOK /\ pending \in [Keys -> PendingStatus \cup {None}]
  BY DEF Inv, TypeOK
<1>2. UNCHANGED disk
  BY DEF Arrives, extract_and_validate_request, extract_and_validate_request_query,
         extract_and_validate_request_query_v1, validate_worker, Malformed,
         create_signed_identity_object, create_signed_identity_object_v1, read_request_record,
         create_failed_identity, followup, get_identity_token_v1, validate_recovery_request,
         retrieve_failed_identity_token
<1>3. \/ \E what : Reply(h, k, what)
      \/ \E f : handler' = [handler EXCEPT ![h] = [Idle EXCEPT !.pc = "SaveRequest", !.key = k, !.file = f]]
      \/ \E f : handler' = [handler EXCEPT ![h] = [pc |-> "Attributes", key |-> k, file |-> f, got |-> None]]
      \/ followup(h, k)
  BY DEF Arrives, extract_and_validate_request, extract_and_validate_request_query,
         extract_and_validate_request_query_v1, validate_worker, Malformed,
         create_signed_identity_object, create_signed_identity_object_v1, read_request_record,
         create_failed_identity, get_identity_token_v1, validate_recovery_request,
         retrieve_failed_identity_token
<1>4. NoneEnters
  <2>1. CASE \E what : Reply(h, k, what)
    BY <2>1, <1>1, ReplyElsewhere
  <2>2. CASE \E f : handler' = [handler EXCEPT ![h] = [Idle EXCEPT !.pc = "SaveRequest", !.key = k, !.file = f]]
    <3>1. PICK f : handler' = [handler EXCEPT ![h] = [Idle EXCEPT !.pc = "SaveRequest", !.key = k, !.file = f]]
      BY <2>2
    <3>2. [Idle EXCEPT !.pc = "SaveRequest", !.key = k, !.file = f].pc # "Identity"
      BY DEF Idle
    <3>. QED BY <3>1, <3>2, <1>1, SetElsewhere
  <2>3. CASE \E f : handler' = [handler EXCEPT ![h] = [pc |-> "Attributes", key |-> k, file |-> f, got |-> None]]
    <3>1. PICK f : handler' = [handler EXCEPT ![h] = [pc |-> "Attributes", key |-> k, file |-> f, got |-> None]]
      BY <2>3
    <3>2. [pc |-> "Attributes", key |-> k, file |-> f, got |-> None].pc # "Identity"
      OBVIOUS
    <3>. QED BY <3>1, <3>2, <1>1, SetElsewhere
  <2>4. CASE followup(h, k)
    <3>1. pending[k] \in {None, CouldNotSubmit, Submitted}
      BY <1>1 DEF PendingStatus
    <3>2. \E pc \in Following \cup {"Respond"} :
            handler' = [handler EXCEPT ![h] = [Idle EXCEPT !.key = k, !.pc = pc]]
      BY <3>1, <2>4 DEF followup, Following
    <3>20. PICK pc \in Following :
            handler' = [handler EXCEPT ![h] = [Idle EXCEPT !.key = k, !.pc = pc]]
      BY <3>2 DEF Following
    <3>3. [Idle EXCEPT !.key = k, !.pc = pc].pc # "Identity"
      <4>1. pc # "Identity"
        BY DEF Following
      <4>. QED BY <4>1 DEF Idle
    <3>. QED BY <3>20, <3>3, <1>1, SetElsewhere
  <2>. QED BY <2>1, <2>2, <2>3, <2>4, <1>3
<1>. QED BY <1>1, <1>2, <1>4, SameDisk, QuietStep

(* A crash may tear an identity object, and makes none. *)
LEMMA CrashMakesNoIdentity ==
  ASSUME Inv, NEW d \in DiskAtCrash, NEW j \in Keys, Whole(d.identity[j])
  PROVE  Whole(disk.identity[j])
<1>1. disk \in DB
  BY DEF Inv, TypeOK
<1>2. CASE \E done \in SUBSET DeleteSteps, k \in Keys : d = delete_all(disk, k, done)
  BY <1>1, <1>2, DeleteAllKeepsRecords
<1>3. CASE \E k \in Keys, dir \in {"requests", "revocation", "identity"} :
             d = [disk EXCEPT ![dir][k] = Torn]
  <2>1. PICK k \in Keys, dir \in {"requests", "revocation", "identity"} :
          d = [disk EXCEPT ![dir][k] = Torn]
    BY <1>3
  <2>2. d.identity \in {disk.identity, [disk.identity EXCEPT ![k] = Torn]}
    BY <2>1, <1>1 DEF DB
  <2>3. d.identity[j] \in {disk.identity[j], Torn}
    BY <2>2, <1>1 DEF DB
  <2>. QED BY <2>3 DEF Whole
<1>4. CASE \E k \in Keys : d = [disk EXCEPT !.pending[k] = "Torn"]
  BY <1>1, <1>4 DEF DB
<1>. QED BY <1>2, <1>3, <1>4, CrashCases

LEMMA CrashIsTraced ==
  ASSUME Inv, Crash
  PROVE  RecordBeforeIdentity' /\ RecordIsThere
<1>1. RecordBeforeIdentity'
  BY DEF Crash, RecordBeforeIdentity, Idle
<1>2. RecordIsThere
  BY CrashMakesNoIdentity DEF Crash, RecordIsThere
<1>. QED BY <1>1, <1>2

LEMMA TraceInductive ==
  ASSUME NoneAssumption, "write" \notin FailureKinds
  PROVE  /\ Init => RecordBeforeIdentity
         /\ Inv /\ RecordBeforeIdentity /\ [Next]_vars => RecordBeforeIdentity' /\ [RecordIsThere]_vars
<1>1. Init => RecordBeforeIdentity
  BY DEF Init, RecordBeforeIdentity, Idle
<1>2. ASSUME Inv, RecordBeforeIdentity, [Next]_vars
      PROVE  RecordBeforeIdentity' /\ [RecordIsThere]_vars
  <2>1. CASE \E h \in Handlers : Step(h) \/ \E k \in Keys : Arrives(h, k)
    BY <2>1, <1>2, StepIsTraced, ArrivesIsTraced
  <2>2. CASE UNCHANGED <<disk, handler>>
    BY <2>2, <1>2 DEF RecordBeforeIdentity, RecordIsThere, Key
  <2>3. CASE Crash
    BY <2>3, <1>2, CrashIsTraced
  <2>. QED
    BY <2>1, <2>2, <2>3, <1>2 DEF Next, submit_verification_attributes, ChainAdvances, Restart, vars
<1>. QED BY <1>1, <1>2

(* No identity object is written before the record by which its holder can *)
(* be traced, whatever crashes and however many calls are in progress, if  *)
(* the writes of the service succeed: a write that fails may have emptied  *)
(* the record that another call is relying on.                             *)
THEOREM RevocationRecordFirstHolds ==
  ASSUME NoneAssumption, "write" \notin FailureKinds
  PROVE  Spec => RevocationRecordFirst
BY InvInductive, TraceInductive, PTL DEF Spec, RevocationRecordFirst
=============================================================================
