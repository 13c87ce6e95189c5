--------------------------------- MODULE Api ---------------------------------
(***************************************************************************)
(* A request to the routers for contracts and reports: its key is verified *)
(* in the database, the rate limit is checked in Redis, the handler runs,  *)
(* and get_db commits or rolls back the one session all of them share.     *)
(* Every stored contract has a report, since a job commits them together.  *)
(***************************************************************************)
EXTENDS Integers, FiniteSets

CONSTANTS
  Request,         \* requests
  Key,             \* rows of api_keys
  MasterKey,       \* the key from the environment
  NoRequest,
  RATE_LIMIT_RPM,
  Window,          \* window_ms
  Skew,            \* by how much the clocks of the API processes may differ
  Tag,             \* what math.random() may add to a member's name
  MaxTime,         \* bound on the clock
  MaxFaults        \* bound on failures of Redis and of the database

ASSUME KeyAssumption == MasterKey \notin Key /\ NoRequest \notin Request
ASSUME LimitAssumption ==
  RATE_LIMIT_RPM \in Nat \ {0} /\ Window \in Nat /\ Skew \in Nat /\ Skew <= Window
ASSUME BoundAssumption == IsFiniteSet(Request) /\ MaxTime \in Nat /\ MaxFaults \in Nat

VARIABLES
  at,        \* where a request is, or its status code
  header,    \* X-API-Key
  deleting,  \* the requests that found the contract they delete
  read,      \* the request_count that verify_api_key read
  row,       \* api_keys, as committed
  lock,      \* who has an uncommitted UPDATE of the row
  bucket,    \* the sorted sets in Redis: their members
  stored,    \* whether the contract, with its report, is in the database
  clock,     \* the time, in units of the window
  faults,
  grants,     \* history: what the rate limit let pass
  overlapped, \* history: keys that two requests used at the same time
  late        \* history: requests sent with a key that was revoked already

database == <<row, lock, stored>>
history == <<grants, overlapped, late>>
vars == <<at, header, deleting, read, database, bucket, clock, faults, history>>

Bucket == Key \cup {MasterKey}
Invalid == "invalid"
Status == {"ok", "401", "404", "429", "500"}
Waiting == {"sent", "verified", "allowed", "commit"}
Member == [score : Nat, tag : Tag]

Init ==
  /\ at = [r \in Request |-> "none"]
  /\ header = [r \in Request |-> Invalid]
  /\ deleting = {}
  /\ read = [r \in Request |-> 0]
  /\ row = [k \in Key |-> [is_active |-> TRUE, request_count |-> 0]]
  /\ lock = [k \in Key |-> NoRequest]
  /\ bucket = [b \in Bucket |-> {}]
  /\ stored \in BOOLEAN
  /\ clock = 0 /\ faults = 0
  /\ grants = {} /\ overlapped = {} /\ late = {}

-----------------------------------------------------------------------------
Go(r, from, to) == at[r] = from /\ at' = [at EXCEPT ![r] = to]

\* The answer, after which the session and its locks are gone.
End(r, from, status) ==
  /\ Go(r, from, status)
  /\ read' = [read EXCEPT ![r] = 0]
  /\ lock' = [k \in Key |-> IF lock[k] = r THEN NoRequest ELSE lock[k]]

\* Another request has read the row of k and not finished.
InUse(r, k) ==
  \E q \in Request \ {r} : header[q] = k /\ at[q] \in Waiting \ {"sent"}

Send(r) ==
  /\ Go(r, "none", "sent")
  /\ \E h \in Bucket \cup {Invalid} :
       /\ header' = [header EXCEPT ![r] = h]
       /\ late' = IF h \in Key /\ ~row[h].is_active THEN late \cup {r} ELSE late
  /\ UNCHANGED <<deleting, read, database, bucket, clock, faults, grants, overlapped>>

\* The master key is not looked up.
AcceptMaster(r) ==
  /\ Go(r, "sent", "verified")
  /\ header[r] = MasterKey
  /\ UNCHANGED <<header, deleting, read, database, bucket, clock, faults, history>>

\* Mutant: the is_active filter is missing.
VerifyAny(r) ==
  \E k \in Key :
    /\ header[r] = k
    /\ Go(r, "sent", "verified")
    /\ read' = [read EXCEPT ![r] = row[k].request_count]
    /\ overlapped' = IF InUse(r, k) THEN overlapped \cup {k} ELSE overlapped
    /\ UNCHANGED <<header, deleting, database, bucket, clock, faults, grants, late>>

\* verify_api_key: an active row is read and changed in memory only.
Verify(r) ==
  \E k \in Key :
    /\ header[r] = k
    /\ row[k].is_active
    /\ Go(r, "sent", "verified")
    /\ read' = [read EXCEPT ![r] = row[k].request_count]
    /\ overlapped' = IF InUse(r, k) THEN overlapped \cup {k} ELSE overlapped
    /\ UNCHANGED <<header, deleting, database, bucket, clock, faults, grants, late>>

\* No header, no such key, or a key that is not active.
Unauthorized(r) ==
  /\ End(r, "sent", "401")
  /\ \/ header[r] = Invalid
     \/ \E k \in Key : header[r] = k /\ ~row[k].is_active
  /\ UNCHANGED <<header, deleting, row, stored, bucket, clock, faults, history>>

\* time.time() of the process that serves the request.
Stamp == clock .. clock + Skew

\* ZREMRANGEBYSCORE 0 .. now - window
InWindow(b, now) == {m \in bucket[b] : m.score > now - Window}

\* Mutant: one request too many.
GrantAtLimit(r) ==
  \E now \in Stamp, tag \in Tag :
    LET b == header[r]
        m == [score |-> now, tag |-> tag]
    IN /\ Go(r, "verified", "allowed")
       /\ Cardinality(InWindow(b, now)) <= RATE_LIMIT_RPM
       /\ bucket' = [bucket EXCEPT ![b] = InWindow(b, now) \cup {m}]
       /\ grants' = grants \cup {[key |-> b, time |-> clock, member |-> m]}
       /\ UNCHANGED <<header, deleting, read, database, clock, faults, overlapped, late>>

\* The script of check_rate_limit.  Members of the same name are one.
Grant(r) ==
  \E now \in Stamp, tag \in Tag :
    LET b == header[r]
        m == [score |-> now, tag |-> tag]
    IN /\ Go(r, "verified", "allowed")
       /\ Cardinality(InWindow(b, now)) < RATE_LIMIT_RPM
       /\ bucket' = [bucket EXCEPT ![b] = InWindow(b, now) \cup {m}]
       /\ grants' = grants \cup {[key |-> b, time |-> clock, member |-> m]}
       /\ UNCHANGED <<header, deleting, read, database, clock, faults, overlapped, late>>

\* Mutant: what has left the window is still counted.
RefuseByAll(r) ==
  \E now \in Stamp :
    /\ End(r, "verified", "429")
    /\ Cardinality(bucket[header[r]]) >= RATE_LIMIT_RPM
    /\ UNCHANGED <<header, deleting, bucket, row, stored, clock, faults, history>>

\* Too many: HTTPException, and the session rolls back.
Refuse(r) ==
  \E now \in Stamp :
    LET b == header[r] IN
    /\ End(r, "verified", "429")
    /\ Cardinality(InWindow(b, now)) >= RATE_LIMIT_RPM
    /\ bucket' = [bucket EXCEPT ![b] = InWindow(b, now)]
    /\ UNCHANGED <<header, deleting, row, stored, clock, faults, history>>

-----------------------------------------------------------------------------
\* The handler's first query flushes the changed row of the key before it, and
\* waits for whoever has changed it.
Flushed(r) == \A k \in Key : header[r] = k => lock[k] = NoRequest

\* A listing of contracts; a contract or a report, as JSON or as PDF; the
\* reports of a contract that has none.
Answer(r) ==
  /\ Go(r, "allowed", "commit") /\ Flushed(r)
  /\ lock' = [k \in Key |-> IF header[r] = k THEN r ELSE lock[k]]
  /\ UNCHANGED <<header, deleting, read, row, stored, bucket, clock, faults, history>>

\* The contract is there, and db.delete marks it.
Delete(r) ==
  /\ Go(r, "allowed", "commit") /\ Flushed(r)
  /\ stored
  /\ lock' = [k \in Key |-> IF header[r] = k THEN r ELSE lock[k]]
  /\ deleting' = deleting \cup {r}
  /\ UNCHANGED <<header, read, row, stored, bucket, clock, faults, history>>

\* No such contract or report: HTTPException, which rolls the row back.
NotFound(r) ==
  /\ End(r, "allowed", "404") /\ Flushed(r)
  /\ ~stored
  /\ UNCHANGED <<header, deleting, row, stored, bucket, clock, faults, history>>

\* The PDF renderer raises; the listing of a contract's reports loads their
\* findings after its query, which an asynchronous session refuses.
HandlerRaises(r) ==
  /\ End(r, "allowed", "500") /\ Flushed(r)
  /\ stored
  /\ UNCHANGED <<header, deleting, row, stored, bucket, clock, faults, history>>

\* Mutant: the count is also written for a request that fails.
DeleteCounts(r) ==
  /\ r \in deleting
  /\ End(r, "commit", "500")
  /\ row' = [k \in Key |-> IF lock[k] = r THEN [row[k] EXCEPT !.request_count = read[r] + 1] ELSE row[k]]
  /\ UNCHANGED <<header, deleting, stored, bucket, clock, faults, history>>

\* get_db commits: of the row, the changed columns with the values they got.
Commit(r) ==
  /\ r \notin deleting
  /\ End(r, "commit", "ok")
  /\ row' = [k \in Key |-> IF lock[k] = r THEN [row[k] EXCEPT !.request_count = read[r] + 1] ELSE row[k]]
  /\ UNCHANGED <<header, deleting, stored, bucket, clock, faults, history>>

\* Contract.reports does not cascade: the flush before the DELETE takes the
\* contract_id, which is NOT NULL, from its reports.
DeleteRaises(r) ==
  /\ r \in deleting
  /\ End(r, "commit", "500")
  /\ UNCHANGED <<header, deleting, row, stored, bucket, clock, faults, history>>

\* Redis or the database fails: roll back, and generic_error_handler.
Fails(r) ==
  /\ faults < MaxFaults
  /\ faults' = faults + 1
  /\ at[r] \in Waiting
  /\ End(r, at[r], "500")
  /\ UNCHANGED <<header, deleting, row, stored, bucket, clock, history>>

-----------------------------------------------------------------------------
\* revoke_api_key in a session of its own waits for the row.
Revoke(k) ==
  /\ lock[k] = NoRequest
  /\ row[k].is_active
  /\ row' = [row EXCEPT ![k].is_active = FALSE]
  /\ UNCHANGED <<at, header, deleting, read, lock, stored, bucket, clock, faults, history>>

\* An audit stores the contract and its report.
StoreAudit ==
  /\ ~stored /\ stored' = TRUE
  /\ UNCHANGED <<at, header, deleting, read, row, lock, bucket, clock, faults, history>>

Tick ==
  /\ clock < MaxTime
  /\ clock' = clock + 1
  /\ UNCHANGED <<at, header, deleting, read, database, bucket, faults, history>>

Serve(r) ==
  \/ AcceptMaster(r) \/ Verify(r) \/ Unauthorized(r)
  \/ Grant(r) \/ Refuse(r)
  \/ Answer(r) \/ Delete(r) \/ NotFound(r) \/ HandlerRaises(r)
  \/ Commit(r) \/ DeleteRaises(r)

Next ==
  \/ \E r \in Request : Send(r) \/ Serve(r) \/ Fails(r)
  \/ \E k \in Key : Revoke(k)
  \/ StoreAudit \/ Tick

Spec == Init /\ [][Next]_vars

-----------------------------------------------------------------------------
(* Properties *)

TypeOK ==
  /\ at \in [Request -> {"none"} \cup Waiting \cup Status]
  /\ header \in [Request -> Bucket \cup {Invalid}]
  /\ deleting \subseteq Request
  /\ read \in [Request -> Nat]
  /\ row \in [Key -> [is_active : BOOLEAN, request_count : Nat]]
  /\ lock \in [Key -> Request \cup {NoRequest}]
  /\ bucket \in [Bucket -> SUBSET Member]
  /\ stored \in BOOLEAN /\ clock \in Nat /\ faults \in Nat
  /\ grants \subseteq [key : Bucket, time : Nat, member : Member]
  /\ overlapped \subseteq Key /\ late \subseteq Request

\* "60 requests/minute per API key": in any stretch of a window, less what the
\* clocks of the API processes differ by, no more requests pass than the limit,
\* but for those that got a member of the same name.
WithinLimit ==
  \A b \in Bucket :
    LET recent == {g \in grants : g.key = b /\ g.time > clock - (Window - Skew)}
    IN Cardinality({g.member : g \in recent}) <= RATE_LIMIT_RPM

\* Refused requests use nothing up: a 429 means that as many requests as the
\* limit did pass, within the window and what the clocks differ by.
RefusedMeansFull ==
  [][\A r \in Request :
       at[r] # "429" /\ at'[r] = "429" =>
         LET recent == {g \in grants : g.key = header[r] /\ g.time > clock - Window - Skew}
         IN Cardinality({g.member : g \in recent}) >= RATE_LIMIT_RPM]_vars

Served(k) == {r \in Request : header[r] = k /\ at[r] = "ok"}

\* Concurrent requests overwrite each other's request_count, but it never counts
\* a request that failed or was refused, and without overlap it misses none.
CountsServed ==
  \A k \in Key :
    /\ row[k].request_count <= Cardinality(Served(k))
    /\ k \notin overlapped => row[k].request_count = Cardinality(Served(k))

\* A revoked key stays revoked, although requests that read it before may write
\* its row after, and no request sent since then is served.
RevokedStaysOut == \A r \in late : ~row[header[r]].is_active /\ at[r] # "ok"

\* contracts.py: "Delete a contract and all associated reports."  Without a
\* failure of the database it does not end in an error.
DeletionWorks ==
  faults = 0 => \A r \in Request : r \in deleting => at[r] # "500"
=============================================================================
