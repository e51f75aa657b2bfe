------------------------------ MODULE EventAlerts ------------------------------
(***************************************************************************)
(* What the canonical warehouse learns of Ticketmaster's events, and what  *)
(* it tells the analyst about them.  Three programs share the database:    *)
(*   activation (oa/live_data_activation.py) opens an acquisition run,     *)
(*     appends the snapshots of each market's page, closes the run, and    *)
(*     derives the activity tape (intelligence/tape.py);                   *)
(*   resolution (identity/ticketmaster_resolution.py) resolves the         *)
(*     attraction of an event to an artist;                                *)
(*   alerting (product/workflow.py, a phase of                             *)
(*     oa/music_terminal_productization.py) derives alerts and, for each,  *)
(*     the edges that lead to it from a watched entity.                    *)
(* DuckDB admits one writing process, so the programs exclude each other.  *)
(* Every statement commits by itself: a crash leaves what was written.     *)
(* A snapshot's place in the ledger is its key, and the order of retrieval *)
(* (the clock of the host is taken to be monotone).                        *)
(***************************************************************************)
EXTENDS Naturals, Sequences, FiniteSets

CONSTANTS Events,
          Markets,      \* the market partitions: a sequence of sets of events
          Reports,      \* what Ticketmaster may say of an event
          Legacy,       \* snapshots from before acquisition runs existed
          None,
          MaxRuns,      \* bound on acquisition runs
          MaxFaults     \* bound on crashes

ASSUME EAAssumption ==
  /\ Markets \in Seq(SUBSET Events)
  /\ \A f \in Reports : DOMAIN f = {"status", "onsale", "presales", "price", "promoter"}
  /\ Legacy \in Seq([event : Events, at : Nat, run : {None}, facts : Reports])
  /\ MaxRuns \in Nat /\ MaxFaults \in Nat

VARIABLES
  snapshots,  \* events.provider_event_snapshots
  runs,       \* audit.provider_acquisition_runs, in the order they were opened
  tape,       \* terminal.activity_tape, by dedupe key
  resolved,   \* identity.ticketmaster_artist_resolutions: events whose artist is known
  alerts,     \* core.alerts, by alert key
  edges,      \* core.alert_related_entities
  pc,         \* where the program that has the database open stands
  task,       \* its memory: market, verdict, page of records, alert being related
  faults,
  owed,       \* history: the edges each alert was to get when it was inserted
  announced   \* history: the runs an alert pass has been completed for

canonical == <<snapshots, runs, tape, resolved, alerts, edges>>
eaVars == <<canonical, pc, task, faults, owed, announced>>

Rest == [market |-> 0, verdict |-> "RUNNING", page |-> {}, alert |-> None, pending |-> {}]

EAInit ==
  /\ snapshots = Legacy /\ runs = << >> /\ tape = {} /\ resolved = {}
  /\ alerts = {} /\ edges = {}
  /\ pc = "idle" /\ task = Rest /\ faults = 0 /\ owed = {} /\ announced = {}

-----------------------------------------------------------------------------
(* Snapshots and runs. *)

OfEvent(e) == {i \in DOMAIN snapshots : snapshots[i].event = e}
Batches == {snapshots[i].at : i \in DOMAIN snapshots}
LastOf(S) == CHOOSE x \in S : \A y \in S : y <= x
FirstOf(S) == CHOOSE x \in S : \A y \in S : x <= y
Now == IF Batches = {} THEN 0 ELSE LastOf(Batches)

\* The snapshot of the same event retrieved before snapshot i; 0: there is none.
Previous(i) == LET before == {j \in OfEvent(snapshots[i].event) : j < i}
               IN  IF before = {} THEN 0 ELSE LastOf(before)

Nothing == [status |-> None, onsale |-> None, presales |-> {}, price |-> None,
            promoter |-> None]
Before(i) == IF Previous(i) = 0 THEN Nothing ELSE snapshots[Previous(i)].facts

-----------------------------------------------------------------------------
(* The activity tape. *)

\* presales is stored by json.dumps: the text of an empty list is "[]", a
\* non-empty string, which bool() takes for presales.
HasPresales(f) == TRUE

Activity(status) ==
  CASE status = "cancelled"   -> "EVENT_CANCELLED"
    [] status = "postponed"   -> "EVENT_POSTPONED"
    [] status = "rescheduled" -> "EVENT_RESCHEDULED"
    [] OTHER                  -> None

\* What the derivation makes of snapshot i.
Discoveries(i) ==
  LET p == Before(i)
      c == snapshots[i].facts
      first == Previous(i) = 0
  IN  {x \in {"EVENT_DISCOVERED"} : first}
      \cup {x \in {"PRESALE_DISCOVERED"} : HasPresales(c) /\ (first \/ ~HasPresales(p))}
      \cup {x \in {"ONSALE_DISCOVERED"} : c.onsale # None /\ p.onsale = None}
      \cup {x \in {"PRICE_RANGE_DISCOVERED"} : c.price # None /\ p.price = None}
      \cup {x \in {"PROMOTER_IDENTIFIED"} : c.promoter # None /\ p.promoter = None}
      \cup {x \in {Activity(c.status)} :
              x # None /\ c.status # None /\ p.status # None /\ p.status # c.status}

\* mutant: an event that has been seen is skipped
FirstReports == UNION {{<<a, snapshots[i].event, i>> : a \in Discoveries(i)} :
                         i \in {j \in DOMAIN snapshots : Previous(j) = 0}}

\* The dedupe key of a row: its activity, event and source record.
TapeRows == UNION {{<<a, snapshots[i].event, i>> : a \in Discoveries(i)} : i \in DOMAIN snapshots}
Untaped == TapeRows \ tape

-----------------------------------------------------------------------------
(* Alerts: a key is <<type, event, dedupe>>. *)

StatusType(status) ==
  CASE status = "cancelled"   -> "EVENT_CANCELLED"
    [] status = "postponed"   -> "EVENT_POSTPONED"
    [] status = "rescheduled" -> "EVENT_RESCHEDULED"
    [] OTHER                  -> "EVENT_STATUS_CHANGED"

When(holds, key) == IF holds THEN {key} ELSE {}

\* _compare_consecutive: how the step from facts p to facts c of event e is told.
Changes(e, p, c) ==
  When(p.status # None /\ c.status # None /\ p.status # c.status,
       <<StatusType(c.status), e, <<p.status, c.status>>>>)
  \cup When(p.onsale = None /\ c.onsale # None, <<"ONSALE_DISCOVERED", e, c.onsale>>)
  \cup {<<"PRESALE_DISCOVERED", e, w.opens>> : w \in c.presales \ p.presales}
  \cup When(p.price # None /\ c.price # None /\ p.price # c.price,
            <<"PRICE_RANGE_CHANGED", e, c.price>>)
  \cup When(p.promoter = None /\ c.promoter # None, <<"PROMOTER_IDENTIFIED", e, c.promoter>>)

ChangeAlerts ==
  UNION {Changes(snapshots[i].event, Before(i), snapshots[i].facts) :
           i \in {j \in DOMAIN snapshots : Previous(j) # 0}}

CompleteRuns == {r \in DOMAIN runs : runs[r] = "COMPLETE"}

\* mutant: the runs sorted the other way round
FirstRun == FirstOf(CompleteRuns)

LatestRun == LastOf(CompleteRuns)

\* Events of the latest complete run that no other run has reported; without
\* runs, events of the latest batch, if there is an earlier one.
NewEvents ==
  IF CompleteRuns # {}
  THEN {e \in Events : /\ \E i \in OfEvent(e) : snapshots[i].run = LatestRun
                       /\ \A i \in OfEvent(e) : snapshots[i].run \in {None, LatestRun}}
  ELSE {e \in Events : /\ Cardinality(Batches) >= 2 /\ OfEvent(e) # {}
                       /\ snapshots[FirstOf(OfEvent(e))].at = Now}

NewEventAlerts == {<<"NEW_EVENT", e, "first_seen">> : e \in NewEvents}

\* The keys an alert may have; none of them, no number and no activity is null.
AlertKeys == {<<"NEW_EVENT", e, "first_seen">> : e \in Events}
             \cup UNION {Changes(e, p, c) : e \in Events, p \in Reports, c \in Reports}

ASSUME NoneAssumption ==
  /\ None \notin Nat
  /\ None \notin {"EVENT_CANCELLED", "EVENT_POSTPONED", "EVENT_RESCHEDULED"}
  /\ None \notin AlertKeys

\* The entities an alert about event e touches: the event itself (its venue and
\* market alike), its artist if resolved, and the promoter on its newest snapshot
\* (the query prefers snapshots with attractions, and every writer stores a list).
Related(e) ==
  {"EVENT"}
  \cup When(e \in resolved, "ARTIST")
  \cup When(snapshots[LastOf(OfEvent(e))].facts.promoter # None, "PROMOTER")

-----------------------------------------------------------------------------
(* Activation. *)

\* A batch is written in a fixed order; which one it is does not matter here.
NextOf(S) == CHOOSE x \in S : TRUE

StartRun ==
  /\ pc = "idle" /\ Len(runs) < MaxRuns
  /\ runs' = Append(runs, "RUNNING")
  /\ pc' = "market" /\ task' = [Rest EXCEPT !.market = 1]
  /\ UNCHANGED <<snapshots, tape, resolved, alerts, edges, faults, owed, announced>>

\* mutant: the records carry the number of the next run
PageOfNextRun(S, reported) ==
  {[event |-> e, at |-> Now + 1, run |-> Len(runs) + 1, facts |-> reported[e]] : e \in S}

Page(S, reported) ==
  {[event |-> e, at |-> Now + 1, run |-> Len(runs), facts |-> reported[e]] : e \in S}

\* A page of the current market: records, nothing (TIMEOUT and SCHEMA_INVALID
\* are not looked at), or a status that ends the sweep: NOT_CONFIGURED,
\* RATE_LIMITED_STOPPED and STOPPED_PROVIDER_ERROR, which no reader tells apart.
AcquirePage ==
  /\ pc = "market" /\ task.market <= Len(Markets)
  /\ \/ \E S \in SUBSET Markets[task.market] : \E reported \in [S -> Reports] :
          /\ task' = [task EXCEPT !.page = Page(S, reported), !.market = @ + 1]
          /\ pc' = "persist"
     \/ /\ task' = [task EXCEPT !.verdict = "STOPPED"]
        /\ pc' = "close"
  /\ UNCHANGED <<canonical, faults, owed, announced>>

NextStep == IF task.market > Len(Markets) THEN "close" ELSE "market"

PersistSnapshot ==
  /\ pc = "persist"
  /\ snapshots' = IF task.page = {} THEN snapshots ELSE Append(snapshots, NextOf(task.page))
  /\ task' = IF task.page = {} THEN task ELSE [task EXCEPT !.page = @ \ {NextOf(task.page)}]
  /\ pc' = IF Cardinality(task.page) <= 1 THEN NextStep ELSE pc
  /\ UNCHANGED <<runs, tape, resolved, alerts, edges, faults, owed, announced>>

CloseRun ==
  /\ pc = "close"
  /\ runs' = [runs EXCEPT ![Len(runs)] =
                IF task.verdict = "RUNNING" THEN "COMPLETE" ELSE task.verdict]
  /\ pc' = "tape" /\ task' = Rest
  /\ UNCHANGED <<snapshots, tape, resolved, alerts, edges, faults, owed, announced>>

InsertTapeRow ==
  /\ pc = "tape" /\ Untaped # {}
  /\ tape' = tape \cup {NextOf(Untaped)}
  /\ UNCHANGED <<snapshots, runs, resolved, alerts, edges, pc, task, faults, owed, announced>>

EndActivation ==
  /\ pc = "tape" /\ Untaped = {} /\ pc' = "idle"
  /\ UNCHANGED <<canonical, task, faults, owed, announced>>

-----------------------------------------------------------------------------
(* Resolution and alerting. *)

Resolve(e) ==
  /\ pc = "idle" /\ e \notin resolved /\ OfEvent(e) # {}
  /\ resolved' = resolved \cup {e}
  /\ UNCHANGED <<snapshots, runs, tape, alerts, edges, pc, task, faults, owed, announced>>

StartAlerts ==
  /\ pc = "idle" /\ pc' = "changes"
  /\ UNCHANGED <<canonical, task, faults, owed, announced>>

\* The alerts of this phase that are not in core.alerts.
Due == (IF pc = "changes" THEN ChangeAlerts ELSE IF pc = "new" THEN NewEventAlerts ELSE {}) \ alerts

\* mutant: only an alert whose artist is known is related to anything
RelatedWhenKnown(a) == IF a[2] \in resolved THEN Related(a[2]) ELSE {}

RelatedTo(a) == Related(a[2])

\* _persist_alert, up to the INSERT of the alert.
InsertAlert ==
  /\ task.alert = None /\ Due # {}
  /\ LET a == NextOf(Due)
     IN  /\ alerts' = alerts \cup {a}
         /\ task' = IF RelatedTo(a) = {} THEN Rest
                    ELSE [task EXCEPT !.alert = a, !.pending = RelatedTo(a)]
         /\ owed' = owed \cup ({a} \X Related(a[2]))
  /\ UNCHANGED <<snapshots, runs, tape, resolved, edges, pc, faults, announced>>

\* _persist_alert_related, one edge.
InsertEdge ==
  /\ task.alert # None
  /\ LET x == NextOf(task.pending)
     IN  /\ edges' = edges \cup {<<task.alert, x>>}
         /\ task' = IF task.pending = {x} THEN Rest ELSE [task EXCEPT !.pending = @ \ {x}]
  /\ UNCHANGED <<snapshots, runs, tape, resolved, alerts, pc, faults, owed, announced>>

PhaseDone ==
  /\ pc \in {"changes", "new"} /\ task.alert = None /\ Due = {}
  /\ pc' = IF pc = "changes" THEN "new" ELSE "idle"
  /\ announced' = announced \cup When(pc = "new" /\ runs # << >>, Len(runs))
  /\ UNCHANGED <<canonical, task, faults, owed>>

\* A crash, an exception out of the transport, an operator's interrupt.
Crash ==
  /\ pc # "idle" /\ faults < MaxFaults
  /\ pc' = "idle" /\ task' = Rest /\ faults' = faults + 1
  /\ UNCHANGED <<canonical, owed, announced>>

EANext ==
  \/ StartRun \/ AcquirePage \/ PersistSnapshot \/ CloseRun
  \/ InsertTapeRow \/ EndActivation
  \/ (\E e \in Events : Resolve(e))
  \/ StartAlerts \/ InsertAlert \/ InsertEdge \/ PhaseDone
  \/ Crash

EASpec == EAInit /\ [][EANext]_eaVars

-----------------------------------------------------------------------------
(* Properties. *)

Verdicts == {"RUNNING", "COMPLETE", "STOPPED"}

\* The ledgers refer to what exists: snapshots to runs, tape rows to snapshots of
\* their event, edges to alerts.
EATypeOK ==
  /\ \A i \in DOMAIN snapshots :
       /\ snapshots[i].event \in Events /\ snapshots[i].facts \in Reports
       /\ snapshots[i].run \in DOMAIN runs \cup {None}
  /\ \A r \in DOMAIN runs : runs[r] \in Verdicts
  /\ \A t \in tape : t[3] \in DOMAIN snapshots /\ snapshots[t[3]].event = t[2]
  /\ \A x \in edges : x[1] \in alerts
  /\ resolved \subseteq Events
  /\ pc \in {"idle", "market", "persist", "close", "tape", "changes", "new"}
  /\ faults \in 0..MaxFaults

\* Alerts that did not get all their edges, other than the one being written.
Orphans == {a \in alerts : a # task.alert /\ \E x \in {o \in owed : o[1] = a} : x \notin edges}

\* An alert whose edges are missing stays that way: the next pass finds its key
\* and writes nothing (_persist_alert returns 0).  Only a crash between the two
\* statements makes one, and no crash makes two; every other alert leads back to
\* the event, market, promoter and artist known when it was written.
OrphansNeedCrashes == Cardinality(Orphans) <= faults

TapedAs(type) ==
  CASE type = "NEW_EVENT" -> "EVENT_DISCOVERED"
    [] OTHER -> type

\* The snapshots alert a tells of: the first of its event, or each that makes the
\* very change against the one before it.
Sources(a) ==
  IF a[1] = "NEW_EVENT" THEN {i \in OfEvent(a[2]) : Previous(i) = 0}
  ELSE {i \in OfEvent(a[2]) :
          Previous(i) # 0 /\ a \in Changes(a[2], Before(i), snapshots[i].facts)}

\* The kinds of alert the tape has no row for.  Presales are one of them although
\* the docstring of the derivation (tape.py:425) says otherwise: HasPresales is
\* true of every snapshot, so PRESALE_DISCOVERED is on the tape for the first
\* report of an event, whatever it says, and never for presales that appear.
OnlyAlerted == {"EVENT_STATUS_CHANGED", "PRICE_RANGE_CHANGED", "PRESALE_DISCOVERED"}

\* The tape and the alerts are derived from the same snapshots by two programs
\* that compare and dedupe differently (derive_provider_event_tape_entries,
\* generate_event_alerts).  Once the tape is up to date, each snapshot an alert
\* tells of has the row of that change there, under its own source record:
\* an alert, whenever it was written, and through crashes of either program, is
\* not about a change that "what changed" lacks or dates to another report.
AlertsAreTaped ==
  Untaped = {} =>
    \A a \in {b \in alerts : b[1] \notin OnlyAlerted} :
      /\ Sources(a) # {}
      /\ \A i \in Sources(a) : <<TapedAs(a[1]), a[2], i>> \in tape

\* When every run so far completed and each was followed by an alert pass before
\* the next run, every event a run has reported was announced as new.  Without
\* either condition an event is lost for good: the runs that stopped, died or
\* went unannounced count as prior knowledge (generate_new_event_alerts).
NewEventsAreAnnounced ==
  (pc = "idle" /\ CompleteRuns = DOMAIN runs /\ announced = DOMAIN runs) =>
    \A i \in DOMAIN snapshots :
      snapshots[i].run # None => <<"NEW_EVENT", snapshots[i].event, "first_seen">> \in alerts
===============================================================================
