------------------------------- MODULE Notify -------------------------------
(***************************************************************************)
(* What a daemon does with the outcomes of one pass over its repositories: *)
(* a message for each outcome worth one, sent to a webhook that may fail,  *)
(* and a state, saved to a file, that keeps what could not be sent and     *)
(* silences what was said already.  daemon --notify and hub daemon         *)
(* --notify both run it.                                                   *)
(*                                                                         *)
(* Outcomes are "idle" (silent), "landed" (an event: it is reported once), *)
(* "no_landing" (an event that later passes may report again) and "error"  *)
(* and "paused" (states that each pass reports while they last).           *)
(***************************************************************************)
EXTENDS Naturals, Sequences, SequencesExt, FiniteSets

CONSTANTS Repo, Outcome,
          Answers,     \* repositories whose webhook answers if tried again and again
          Limit,       \* _UNDELIVERED_LIMIT
          MaxReports,  \* bound on the reports, and spells of a state, of a run
          MaxCrashes,
          Faults       \* subset of {"down", "unsaved", "config"}

NotifyAssumption ==
  /\ IsFiniteSet(Repo)
  /\ Outcome \subseteq {"idle", "landed", "no_landing", "error", "paused"}
  /\ "idle" \in Outcome /\ Answers \subseteq Repo
  /\ Limit \in Nat \ {0} /\ MaxReports \in Nat /\ MaxCrashes \in Nat

VARIABLES
  pc,       \* "waiting", "delivering", "saving" or "down"
  state,    \* last_outcomes: the settled key of each repository, what is kept
  saved,    \* the state file
  todo,     \* messages this pass has yet to try
  failed,   \* repositories one message of which failed in this pass
  next,     \* the state the pass is building
  spell,    \* history: the key each repository last reported, and its report
  reports,  \* history: how many reports there were
  events,   \* history: the reports that were events
  sent,     \* history: what the webhook received
  unsaved,  \* history: reports handled since the last save that worked
  lapsed,   \* history: reports the limit, a crash, a failed save or a bad config lost
  crashes

vars == <<pc, state, saved, todo, failed, next, spell, reports, events, sent,
          unsaved, lapsed, crashes>>

Message == [repo : Repo, key : Outcome, id : 0..MaxReports]
NoKey   == "none"
Empty   == [key |-> [r \in Repo |-> NoKey], kept |-> <<>>]

IsEvent(key)        == key \in {"landed", "no_landing"}
IsTransitionOnly(k) == k \in {"no_landing", "error", "paused"}

(* Mutant: an outcome that repeats is a message every time.                *)
SettlesNever(r, key) == key = "idle"

(* sweep_notifications: nothing to say, or nothing new.                    *)
Settles(r, key) == key = "idle" \/ (IsTransitionOnly(key) /\ state.key[r] = key)

(* History: the report a message answers; a state that lasts is one.       *)
Continues(r, key) == IsTransitionOnly(key) /\ spell[r].key = key
Fresh(report)     == {r \in Repo : report[r] # "idle" /\ ~Continues(r, report[r])}

SpellOf(report) ==
  LET order == SetToSeq(Fresh(report))
      id(r) == reports + CHOOSE i \in DOMAIN order : order[i] = r
  IN  [r \in Repo |-> IF report[r] = "idle" THEN [key |-> "idle", id |-> 0]
                      ELSE IF r \in Fresh(report) THEN [key |-> report[r], id |-> id(r)]
                      ELSE spell[r]]

Ids(messages) == {m.id : m \in ToSet(messages)}

(* Messages of a pass, each repository's in the order of the outcomes.     *)
MessagesOf(report, spells) ==
  LET loud == SetToSeq({r \in Repo : ~Settles(r, report[r])})
  IN  [i \in DOMAIN loud |-> [repo |-> loud[i], key |-> report[loud[i]],
                              id |-> spells[loud[i]].id]]

(* A pass reported its outcomes: what was kept goes first.                 *)
Sweep ==
  /\ pc = "waiting"
  /\ \E report \in [Repo -> Outcome] :
       /\ reports + Cardinality(Fresh(report)) <= MaxReports
       /\ reports' = reports + Cardinality(Fresh(report))
       /\ spell' = SpellOf(report)
       /\ todo' = state.kept \o MessagesOf(report, spell')
       /\ next' = [key  |-> [r \in Repo |-> IF Settles(r, report[r]) THEN report[r] ELSE NoKey],
                   kept |-> <<>>]
       /\ events' = events \cup {spell'[r].id : r \in {x \in Repo : IsEvent(report[x])}}
       /\ unsaved' = unsaved \cup Ids(todo')
  /\ failed' = {}
  /\ pc' = "delivering"
  /\ UNCHANGED <<state, saved, sent, lapsed, crashes>>

FromKept(m) == \E k \in ToSet(state.kept) : k = m

(* Delivered: a new message commits its key.                               *)
Deliver(m, received) ==
  /\ sent' = IF received THEN Append(sent, m) ELSE sent
  /\ lapsed' = IF received THEN lapsed
               ELSE IF FromKept(m) THEN [lapsed EXCEPT !.kept = @ \cup {m.id}]
               ELSE [lapsed EXCEPT !.config = @ \cup {m.id}]
  /\ next' = IF FromKept(m) THEN next ELSE [next EXCEPT !.key[m.repo] = m.key]
  /\ UNCHANGED failed

(* Mutant: the event that failed is not kept.                              *)
HoldNothing(m) == UNCHANGED next

(* Not delivered: an event is kept, and its key settles; a state is left   *)
(* unsettled, so that the next report of it is a message again.            *)
Hold(m) ==
  IF FromKept(m) THEN next' = [next EXCEPT !.kept = Append(@, m)]
  ELSE IF IsEvent(m.key)
       THEN next' = [next EXCEPT !.key[m.repo] = m.key, !.kept = Append(@, m)]
       ELSE UNCHANGED next

(* Mutant: a repository whose message failed has its later ones tried.     *)
WaitsNever(m) == FALSE

(* Mutant: one failure ends the deliveries of the pass.                    *)
WaitsForAny(m) == failed # {}

(* After one failure the rest of that repository's messages wait.          *)
Waits(m) == m.repo \in failed

(* deliver_notifications, one message: the webhook took it, or the config  *)
(* of the repository has no webhook to offer (which counts as delivered),  *)
(* or it failed, or it must wait.                                          *)
Send(r, ok) ==
  /\ pc = "delivering" /\ todo # <<>> /\ Head(todo).repo = r
  /\ LET m == Head(todo) IN
       IF Waits(m) THEN ~ok /\ Hold(m) /\ UNCHANGED <<sent, failed, lapsed>>
       ELSE \/ ok /\ Deliver(m, TRUE)
            \/ ok /\ "config" \in Faults /\ Deliver(m, FALSE)
            \/ ~ok /\ "down" \in Faults /\ Hold(m) /\ failed' = failed \cup {r}
               /\ UNCHANGED <<sent, lapsed>>
  /\ todo' = Tail(todo)
  /\ UNCHANGED <<pc, state, saved, spell, reports, events, unsaved, crashes>>

(* Mutant: what is kept grows without end.                                 *)
NewestOfAll(messages) == messages

Newest(messages) ==
  IF Len(messages) <= Limit THEN messages
  ELSE SubSeq(messages, Len(messages) - Limit + 1, Len(messages))

(* The pass is over: at most Limit messages stay kept, the newest.         *)
EndSweep ==
  /\ pc = "delivering" /\ todo = <<>>
  /\ state' = [next EXCEPT !.kept = Newest(@)]
  /\ lapsed' = [lapsed EXCEPT !.limit = @ \cup (Ids(next.kept) \ Ids(Newest(next.kept)))]
  /\ pc' = "saving"
  /\ UNCHANGED <<saved, todo, failed, next, spell, reports, events, sent, unsaved, crashes>>

(* save_notify_state: best effort, an atomic replace.                      *)
Save ==
  /\ pc = "saving"
  /\ \/ saved' = state /\ unsaved' = {}
     \/ "unsaved" \in Faults /\ UNCHANGED <<saved, unsaved>>
  /\ pc' = "waiting"
  /\ UNCHANGED <<state, todo, failed, next, spell, reports, events, sent, lapsed, crashes>>

(* The process dies, in a pass or between two.                             *)
Crash ==
  /\ pc # "down" /\ crashes < MaxCrashes
  /\ crashes' = crashes + 1
  /\ lapsed' = IF pc = "waiting" THEN [lapsed EXCEPT !.save = @ \cup unsaved]
                                 ELSE [lapsed EXCEPT !.crash = @ \cup unsaved]
  /\ pc' = "down" /\ unsaved' = {}
  /\ state' = Empty /\ next' = Empty /\ todo' = <<>> /\ failed' = {}
  /\ UNCHANGED <<saved, spell, reports, events, sent>>

(* load_notify_state.  History: a state the file shows goes on.            *)
Restart ==
  /\ pc = "down"
  /\ state' = saved
  /\ spell' = [r \in Repo |->
                 IF IsTransitionOnly(saved.key[r]) /\ saved.key[r] # spell[r].key
                 THEN [key |-> saved.key[r], id |-> 0] ELSE spell[r]]
  /\ pc' = "waiting"
  /\ UNCHANGED <<saved, todo, failed, next, reports, events, sent, unsaved, lapsed, crashes>>

Init ==
  /\ pc = "waiting" /\ state = Empty /\ saved = Empty /\ next = Empty
  /\ todo = <<>> /\ failed = {} /\ sent = <<>> /\ events = {}
  /\ unsaved = {} /\ lapsed = [limit |-> {}, crash |-> {}, save |-> {}, config |-> {}, kept |-> {}]
  /\ spell = [r \in Repo |-> [key |-> "idle", id |-> 0]]
  /\ reports = 0 /\ crashes = 0

Next ==
  \/ Sweep \/ EndSweep \/ Save \/ Crash \/ Restart
  \/ \E r \in Repo, ok \in BOOLEAN : Send(r, ok)

(* The loop keeps running, and is restarted; a webhook of Answers takes    *)
(* what it is sent again and again, another may be down for good.          *)
Fairness ==
  /\ WF_vars(Sweep) /\ WF_vars(EndSweep) /\ WF_vars(Save) /\ WF_vars(Restart)
  /\ \A r \in Repo : WF_vars(\E ok \in BOOLEAN : Send(r, ok))
  /\ \A r \in Answers : SF_vars(Send(r, TRUE))

Spec == Init /\ [][Next]_vars /\ Fairness

-----------------------------------------------------------------------------
State == [key : [Repo -> Outcome \cup {NoKey}], kept : Seq(Message)]

(* Types of the delivery loop's state; what is kept stays bounded.         *)
TypeOK ==
  /\ pc \in {"waiting", "delivering", "saving", "down"}
  /\ state \in State /\ saved \in State /\ next \in State
  /\ Len(state.kept) <= Limit /\ Len(saved.kept) <= Limit
  /\ todo \in Seq(Message) /\ sent \in Seq(Message)
  /\ failed \subseteq Repo
  /\ events \subseteq 0..MaxReports /\ unsaved \subseteq 0..MaxReports
  /\ lapsed \in [{"limit", "crash", "save", "config", "kept"} -> SUBSET (0..MaxReports)]
  /\ spell \in [Repo -> [key : Outcome, id : 0..MaxReports]]
  /\ reports \in 0..MaxReports /\ crashes \in 0..MaxCrashes

Waiting == IF pc = "down" THEN Ids(saved.kept)
           ELSE Ids(state.kept) \cup Ids(todo) \cup Ids(next.kept)
Excused == lapsed.limit \cup lapsed.crash \cup lapsed.save

Accounted == Ids(sent) \cup Waiting \cup lapsed.limit \cup lapsed.crash \cup {0}

(* deliver_notifications keeps an event that fails: an event a pass        *)
(* reported is received, or waits to be sent again, whatever the webhook   *)
(* does; only the limit, a crash before a save, or a repository whose      *)
(* config offers no webhook at the time can lose it.                       *)
NothingLost == events \subseteq Accounted \cup lapsed.save \cup lapsed.config \cup lapsed.kept

(* deliver_notifications: "An event message that fails is kept and sent    *)
(* again by later sweeps ... until it is delivered".                       *)
KeptUntilDelivered == lapsed.kept \subseteq Ids(sent)

(* save_notify_state_file: "losing the dedup state only risks one extra    *)
(* notification".  No event is lost to a save that failed.                 *)
SaveOnlyRepeats == events \subseteq Accounted

(* A report, or a state for as long as it lasts, is received once, and     *)
(* after a crash again only if the file did not know of it.                *)
NoRepeat ==
  \A i, j \in DOMAIN sent :
    (sent[i].id = sent[j].id /\ i # j) => sent[i].id \in Excused

(* The events of one repository are received in the order they happened.   *)
InOrder ==
  \A i, j \in DOMAIN sent :
    (/\ i < j /\ sent[i].repo = sent[j].repo
     /\ IsEvent(sent[i].key) /\ IsEvent(sent[j].key)
     /\ {sent[i].id, sent[j].id} \cap Excused = {}) => sent[i].id < sent[j].id

KeptFor(r) == \E m \in ToSet(state.kept) : m.repo = r

(* What is kept for a repository whose webhook answers does not stay kept, *)
(* though another repository's webhook never answers again: it is sent, or *)
(* the limit drops it.                                                     *)
KeptIsSent == \A r \in Answers : KeptFor(r) ~> (~KeptFor(r) \/ pc = "down")
=============================================================================
