----------------------------- MODULE WahaSession -----------------------------
(***************************************************************************)
(* The status of a WhatsApp session: WAHA's own, and the copy on the       *)
(* session's row, which decides whether Odoo sends or synchronises.        *)
(*                                                                         *)
(* The row is written by the user's start and stop, by refreshes and by    *)
(* the session.status webhook.  All but the webhook call WAHA first: the   *)
(* transaction read the row before, so its write is refused when another   *)
(* was committed meanwhile (PostgreSQL, REPEATABLE READ - the advisory     *)
(* lock that write takes only makes it wait).  The refused start and stop  *)
(* are run again; a refused refresh is left to the next.                   *)
(***************************************************************************)
EXTENDS Naturals, FiniteSets

CONSTANTS
    Sessions,
    MaxUser,     \* bound: starts and stops by users
    MaxRemote    \* bound: changes at WAHA that nobody in Odoo asked for

ASSUME SessionAssumption == MaxUser \in Nat /\ MaxRemote \in Nat

VARIABLES
    remote,    \* the session at WAHA
    status,    \* status of the session's row
    reports,   \* session.status webhooks under way, in no order
    ops,       \* calls to WAHA that were answered, and whose row is not written
    asked, changes

sessionVars == <<remote, status, reports, ops, asked, changes>>

Statuses == {"stopped", "starting", "working", "failed"}
Op(kind, s, got) == [kind |-> kind, s |-> s, got |-> got, outdated |-> FALSE]

SessionInit ==
    /\ remote = [s \in Sessions |-> "working"] /\ status = remote
    /\ reports = {} /\ ops = {}
    /\ asked = 0 /\ changes = 0

-----------------------------------------------------------------------------
\* The row of s is written: whoever read it before will be refused.
Outdate(s, rest) == {[o EXCEPT !.outdated = @ \/ o.s = s] : o \in rest}
Write(s, new, rest) ==
    /\ status' = [status EXCEPT ![s] = new]
    /\ ops' = Outdate(s, rest)

RemoteIs(s, new) ==
    /\ remote' = [remote EXCEPT ![s] = new]
    /\ reports' = reports \cup (IF new = "absent" THEN {<<s, "stopped">>} ELSE {<<s, new>>})

\* POST creates and starts the session; one that exists only gets its configuration.
CallStart(s, rest) ==
    /\ IF remote[s] = "absent" THEN RemoteIs(s, "starting") ELSE UNCHANGED <<remote, reports>>
    /\ ops' = rest \cup {Op("start", s, "starting")}

\* DELETE: there may be nothing to delete, which is an error.
CallStop(s, rest) ==
    IF remote[s] = "absent"
    THEN ops' = rest /\ UNCHANGED <<remote, reports>>
    ELSE RemoteIs(s, "absent") /\ ops' = rest \cup {Op("stop", s, "stopped")}

Busy(s, kind) == \E o \in ops : o.s = s /\ o.kind = kind

AskedByUser(s) ==
    /\ asked < MaxUser /\ asked' = asked + 1
    /\ ~Busy(s, "start") /\ ~Busy(s, "stop")
    /\ UNCHANGED <<status, changes>>

action_start_session(s) == AskedByUser(s) /\ CallStart(s, ops)
action_stop_session(s)  == AskedByUser(s) /\ CallStop(s, ops)

\* The scheduled refresh takes every active session, that of the QR widget and of the
\* form one.  Of a session WAHA does not have only the error message is written.
CallRefresh(s) ==
    ops' = IF remote[s] = "absent" THEN Outdate(s, ops)
                                   ELSE ops \cup {Op("refresh", s, remote[s])}

\* Mutant: only the sessions that are thought to be connected are refreshed.
action_refresh_statusConnected(s) ==
    /\ ~Busy(s, "refresh") /\ status[s] = "working"
    /\ CallRefresh(s)
    /\ UNCHANGED <<remote, status, reports, asked, changes>>

action_refresh_status(s) ==
    /\ ~Busy(s, "refresh")
    /\ CallRefresh(s)
    /\ UNCHANGED <<remote, status, reports, asked, changes>>

\* The transaction of a call writes the row and commits.
Commit(o) ==
    /\ ~o.outdated
    /\ Write(o.s, o.got, ops \ {o})
    /\ UNCHANGED <<remote, reports, asked, changes>>

Refused(o) ==
    /\ o.outdated
    /\ \/ o.kind = "refresh" /\ ops' = ops \ {o} /\ UNCHANGED <<remote, reports>>
       \/ o.kind = "start" /\ CallStart(o.s, ops \ {o})
       \/ o.kind = "stop" /\ CallStop(o.s, ops \ {o})
    /\ UNCHANGED <<status, asked, changes>>

-----------------------------------------------------------------------------
_process_session_status(s, new) ==
    /\ <<s, new>> \in reports
    /\ reports' = reports \ {<<s, new>>}
    /\ Write(s, new, ops)
    /\ UNCHANGED <<remote, asked, changes>>

\* A QR code is scanned, a phone is switched off, WAHA restarts.
WahaChanges(s, new) ==
    /\ remote[s] \notin {"absent", new}
    /\ changes < MaxRemote /\ changes' = changes + 1
    /\ RemoteIs(s, new)
    /\ UNCHANGED <<status, ops, asked>>

SessionNext ==
    \/ \E s \in Sessions :
         \/ action_start_session(s) \/ action_stop_session(s) \/ action_refresh_status(s)
         \/ \E new \in {"working", "failed"} : WahaChanges(s, new)
         \/ \E new \in Statuses : _process_session_status(s, new)
    \/ \E o \in ops : Commit(o) \/ Refused(o)

\* The scheduled action runs for ever; a transaction that is under way ends.
SessionFairness ==
    /\ \A s \in Sessions : WF_sessionVars(action_refresh_status(s))
    /\ \A s \in Sessions : WF_sessionVars(\E o \in ops : o.s = s /\ (Commit(o) \/ Refused(o)))
    /\ WF_sessionVars(\E s \in Sessions, new \in Statuses : _process_session_status(s, new))

-----------------------------------------------------------------------------
SessionTypeOK ==
    /\ remote \in [Sessions -> Statuses \cup {"absent"}]
    /\ status \in [Sessions -> Statuses]
    /\ reports \subseteq Sessions \X Statuses
    /\ ops \subseteq [kind : {"start", "stop", "refresh"}, s : Sessions, got : Statuses,
                      outdated : BOOLEAN]

\* However reports overtake one another and refused writes are repeated, the row of
\* a session that WAHA has ends up with the status WAHA gives it: the scheduled
\* refresh repairs what the webhooks leave.  (Not of one WAHA no longer has: its
\* refresh is an error, so a late report stays on the row.)
StatusConverges ==
    \A s \in Sessions : <>[](remote[s] = "absent" \/ status[s] = remote[s])
=============================================================================
