----------------------------- MODULE Phonebook -----------------------------
(***************************************************************************)
(* The contacts of VoipStack and the outgoing dial plan built on them: the  *)
(* ordered phonebook with its cursor, the update cycle that prunes contacts *)
(* no source names any more, the destination shown to the user, and the     *)
(* choice of where a call goes.                                             *)
(*                                                                         *)
(* All of it runs in the main loop, so a handler is a function from one     *)
(* state of the phone, the record ph, to the next.  The exception is the    *)
(* on_destination_changed automation: it runs between the moment call_()    *)
(* has chosen a contact and the moment it dials.  The call itself is only   *)
(* as much of CallFsm as the shown destination depends on.                  *)
(*                                                                         *)
(* Text is abstracted: a contact has a name and a route, an endpoint stands *)
(* for address, ports, transport and capability, and a row of a source is   *)
(* already split into its fields.                                           *)
(***************************************************************************)
EXTENDS Naturals, Sequences, FiniteSets, SequencesExt

CONSTANTS
    Names,          \* names, which serve as routes too
    HaNames,        \* names that Home Assistant may be given: a subset of Names
    Self,           \* device_name_, device_route_id_
    None,           \* the empty string
    Texts,          \* what a field of a roster may say: names and anything else
    Endpoints,      \* where a contact can be reached; None when unknown
    Rows,           \* CSV rows that actions may add
    Batches,        \* CSV lists that sources may push
    Rosters,        \* JSON rosters that Home Assistant may push
    Threshold,      \* prune_threshold_; 0 disables pruning
    MaxContacts,    \* MAX_CONTACTS
    MaxMissing,     \* where missing_count saturates: 255
    HaFirst         \* use_ha_as_first_contact_

ASSUME PhonebookAssumption ==
    /\ HaNames \subseteq Names
    /\ Self \notin Names /\ None \notin Names \cup {Self} \cup Endpoints
    /\ Names \cup {Self, None} \subseteq Texts
    /\ Threshold \in Nat /\ MaxContacts \in Nat \ {0}
    /\ MaxMissing \in Nat /\ Threshold <= MaxMissing
    /\ HaFirst \in BOOLEAN

CsvRow == [name : Names \cup {Self}, route : Names \cup {Self}, ep : Endpoints \cup {None},
           valid : BOOLEAN]

JsonRow == [id : Texts, name : Texts, addr : Endpoints \cup {None}, local : BOOLEAN,
            bridge : BOOLEAN]

\* What sources may say: a CSV row, as far as it can be split, has a name and a
\* route; any text of a JSON row may be missing or be nobody's name.
ASSUME RosterAssumption ==
    /\ Rows \subseteq CsvRow
    /\ \A source \in Batches : source.kind = "csv" /\ source.rows \in Seq(CsvRow)
    /\ \A source \in Rosters : source.kind = "json" /\ source.rows \in Seq(JsonRow)

VARIABLES
    ph,     \* contacts, update cycle, dial plan and call, see PhoneType
    step    \* "loop", or where call_() is: "publishing", while on_destination_changed
            \* runs, or "placing"

vars == <<ph, step>>

Contact == [name : Names, route : Names \cup {Self}, ep : Endpoints \cup {None},
            miss : 0..MaxMissing]

\* What a call is for when there is no contact at all.
Unknown == "(unknown)"

Shown == Names \cup {None, Unknown}

CallType ==
    [state : {"IDLE", "OUT", "UP", "IN", "ENDED"},
     dest : Shown,                      \* the destination name of a call of ours
     ep : Endpoints \cup {None}]

TargetType == [dest : Shown, ep : Endpoints \cup {None}]

PhoneType ==
    [entries : Seq(Contact),
     cursor : 1..MaxContacts,           \* index_, counted from 1
     active : BOOLEAN,                  \* cycle_active_
     late : BOOLEAN,                    \* CYCLE_TIMEOUT_MS have passed
     seen : SUBSET (Names \cup {Self}), \* seen_in_cycle_
     ha : Names \cup {None},            \* ha_peer_name_
     picked : BOOLEAN,                  \* first_contacts_batch_committed_
     pending : Names \cup {None},       \* pending_dialplan_target_
     call : CallType,
     tried : BOOLEAN,                   \* ha_media_fallback_attempted_
     redial : BOOLEAN,                  \* ha_media_fallback_pending_
     reason : BOOLEAN,                  \* last_reason_ is not empty
     last : Shown,                      \* last_terminal_dest_name_ of an outgoing call
     asked : TargetType,                \* history: what call_() in progress is to call
     refused : BOOLEAN,                 \* history: call_() was refused, nothing published since
     shown : Shown,                     \* last_published_destination_
     looping : BOOLEAN]                 \* the component's loop() is enabled

Nobody == [dest |-> None, ep |-> None]

NoCall == [state |-> "IDLE", dest |-> None, ep |-> None]

Init ==
    /\ ph = [entries |-> <<>>, cursor |-> 1, active |-> FALSE, late |-> FALSE, seen |-> {},
             ha |-> None, picked |-> FALSE, pending |-> None, call |-> NoCall,
             tried |-> FALSE, redial |-> FALSE, reason |-> FALSE, last |-> None,
             asked |-> Nobody, refused |-> FALSE, shown |-> None, looping |-> FALSE]
    /\ step = "loop"

-----------------------------------------------------------------------------
(* The class Phonebook. *)

\* find: the first contact that x names, by name or by route; 0 if there is none.
Find(p, x) == SelectInSeq(p.entries, LAMBDA e : e.name = x \/ e.route = x)

\* select moves the cursor; a name that nobody has leaves it alone.
Select(p, x) == IF Find(p, x) = 0 THEN p ELSE [p EXCEPT !.cursor = Find(p, x)]

Selected(p) ==
    IF p.entries = <<>> THEN [name |-> None, route |-> None, ep |-> None, miss |-> 0]
                        ELSE p.entries[p.cursor]

\* A slot keeps its place and its missing_count when its endpoint changes, and
\* a row without an endpoint changes nothing.
Merge(p, row) ==
    LET i == SelectInSeq(p.entries, LAMBDA e : e.route = row.route)
        fresh == [name |-> row.name, route |-> row.route, ep |-> row.ep, miss |-> 0]
    IN  IF i = 0 /\ Len(p.entries) < MaxContacts
        THEN [p EXCEPT !.entries = Append(@, fresh)]
        ELSE IF i # 0 /\ row.ep # None
        THEN [p EXCEPT !.entries[i].name = row.name, !.entries[i].ep = row.ep]
        ELSE p

AddOne(p, row) == IF ~row.valid \/ row.name = Self THEN p ELSE Merge(p, row)

AddBatch(p, rows) ==
    LET last == IF Len(rows) < MaxContacts THEN Len(rows) ELSE MaxContacts
        added[k \in 0..last] == IF k = 0 THEN p ELSE AddOne(added[k - 1], rows[k])
    IN  added[last]

\* Mutant: the cursor does not follow a contact removed before it.
RemoveOneLeavingCursor(p, x) ==
    LET i == SelectInSeq(p.entries, LAMBDA e : e.name = x)
        rest == RemoveAt(p.entries, i)
    IN  IF i = 0 THEN p
        ELSE [p EXCEPT !.entries = rest, !.cursor = IF @ > Len(rest) THEN 1 ELSE @]

\* The cursor follows: it moves down with the contact it denotes, and stays on
\* the next one, or wraps, when that contact itself goes.
RemoveOne(p, x) ==
    LET i == SelectInSeq(p.entries, LAMBDA e : e.name = x)
        rest == RemoveAt(p.entries, i)
    IN  IF i = 0 THEN p
        ELSE [p EXCEPT !.entries = rest,
                       !.cursor = IF i < @ THEN @ - 1 ELSE IF @ > Len(rest) THEN 1 ELSE @]

OneMore(n) == IF n < MaxMissing THEN n + 1 ELSE n

\* Mutant: a contact that was seen is counted, too.
MissedBySeenToo(p, e) == [e EXCEPT !.miss = OneMore(@)]

Missed(p, e) == [e EXCEPT !.miss = IF e.name \in p.seen THEN 0 ELSE OneMore(@)]

\* (SubSeq changes nothing: it gives TLC a tuple, whose EXCEPT it gets right.)
Count(p) ==
    LET counted == [i \in DOMAIN p.entries |-> Missed(p, p.entries[i])]
    IN  [p EXCEPT !.entries = SubSeq(counted, 1, Len(p.entries))]

\* Phonebook::commit_cycle collects names first and removes by name then.
Prune(p) ==
    LET counted == Count(p)
        all == Len(p.entries)
        pruned[k \in 0..all] ==
            IF k = 0 THEN counted
            ELSE IF counted.entries[k].miss >= Threshold
            THEN RemoveOne(pruned[k - 1], counted.entries[k].name)
            ELSE pruned[k - 1]
    IN  IF Threshold = 0 THEN counted ELSE pruned[all]

\* Mutant: every row of the roster takes a slot.
PutAnyway(list, row) == Append(list, row)

\* One row of an authoritative source: the last row of a route wins.
Put(list, row) ==
    LET i == SelectInSeq(list, LAMBDA e : e.route = row.route)
    IN  IF i = 0 THEN Append(list, row) ELSE [list EXCEPT ![i] = row]

\* The contacts that such a source leaves, as far as they fit.
NewContacts(rows) ==
    LET Fresh(row) == [name |-> row.name, route |-> row.route, ep |-> row.ep, miss |-> 0]
        put[k \in 0..Len(rows)] ==
            IF k = 0 THEN <<>>
            ELSE IF Len(put[k - 1]) >= MaxContacts THEN put[k - 1]
            ELSE Put(put[k - 1], Fresh(rows[k]))
    IN  put[Len(rows)]

\* replace_all: the selected contact is looked for by its route, then by name.
Replace(p, rows) ==
    LET fresh == [p EXCEPT !.entries = NewContacts(rows), !.cursor = 1]
        was == Selected(p)
    IN  IF Find(fresh, was.route) # 0 THEN Select(fresh, was.route)
                                      ELSE Select(fresh, was.name)

SameEntries(p, q) ==
    LET Shape(r) == [i \in DOMAIN r.entries |->
                        <<r.entries[i].name, r.entries[i].route, r.entries[i].ep>>]
    IN  Shape(p) = Shape(q)

-----------------------------------------------------------------------------
(* What the user is shown, and what is published when. *)

\* publish_destination_: the target on its way, the one called, the one last
\* called with an outcome to tell, or the selected contact.
Destination(p) ==
    IF p.pending # None THEN p.pending
    ELSE IF p.call.state # "IDLE" /\ p.call.dest # None THEN p.call.dest
    ELSE IF p.call.state = "IDLE" /\ p.reason /\ p.last # None THEN p.last
    ELSE Selected(p).name

Publish(p) == [p EXCEPT !.shown = Destination(p), !.refused = FALSE]

PublishIf(p, changed) == IF changed THEN Publish(p) ELSE p

\* maybe_auto_select_ha_first_ happens once, and never during a call.
PicksHa(p) ==
    /\ HaFirst /\ ~p.picked /\ p.ha # None
    /\ p.call.state = "IDLE" /\ Find(p, p.ha) # 0

AutoSelect(p) == IF PicksHa(p) THEN [Select(p, p.ha) EXCEPT !.picked = TRUE] ELSE p

-----------------------------------------------------------------------------
(* Sources of contacts. *)

\* The elements of s whose place is in I.
Only(s, I) ==
    LET only[k \in 0..Len(s)] ==
            IF k = 0 THEN <<>>
            ELSE IF k \in I THEN Append(only[k - 1], s[k]) ELSE only[k - 1]
    IN  only[Len(s)]

\* normalize_phonebook_for_transport_ drops what cannot be parsed, unless that
\* would leave nothing.
Normalized(rows) ==
    LET good == Only(rows, {i \in DOMAIN rows : rows[i].valid})
    IN  IF good = <<>> THEN rows ELSE good

\* track_csv_ takes the names, also those of rows that are refused afterwards.
Tracked(p, rows) ==
    IF p.active THEN [p EXCEPT !.seen = @ \cup {rows[i].name : i \in DOMAIN rows}] ELSE p

SetContactsCsv(p, rows) ==
    LET added == AddBatch(Tracked(p, Normalized(rows)), Normalized(rows))
    IN  PublishIf(AutoSelect(added), ~SameEntries(p, added) \/ PicksHa(added))

\* parse_json_roster_slot: id and name stand in for one another, also when the
\* name is too long or has a character the phonebook cannot hold.
Slot(r) ==
    LET id == IF r.id = None THEN r.name ELSE r.id
    IN  [r EXCEPT !.id = id, !.name = IF r.name \in Names \cup {Self} THEN r.name ELSE id]

Usable(slot) == slot.name \in Names \cup {Self}

\* The row of Home Assistant itself: the last one with an address.
HaRow(slots) == SelectLastInSubSeq(slots, 1, Len(slots), LAMBDA r : r.local /\ r.addr # None)

\* A contact is called directly, or through Home Assistant, or cannot be kept.
Reached(slots, r) ==
    IF r.local \/ (r.addr # None /\ ~r.bridge) THEN r.addr
    ELSE IF HaRow(slots) # 0 THEN slots[HaRow(slots)].addr ELSE None

Parsed(roster) ==
    LET all == [i \in DOMAIN roster.rows |-> Slot(roster.rows[i])]
    IN  Only(all, {i \in DOMAIN all : Usable(all[i])})

\* The phone's own row takes no slot, and there are MAX_CONTACTS.
Slots(roster) ==
    LET parsed == Parsed(roster)
        others == Only(parsed, {i \in DOMAIN parsed : Self \notin {parsed[i].name, parsed[i].id}})
    IN  SubSeq(others, 1, IF Len(others) < MaxContacts THEN Len(others) ELSE MaxContacts)

Offered(slots) ==
    LET kept == Only(slots, {i \in DOMAIN slots :
                                slots[i].local \/ Reached(slots, slots[i]) # None})
    IN  [i \in DOMAIN kept |-> [name |-> kept[i].name, route |-> kept[i].id,
                                ep |-> Reached(slots, kept[i])]]

\* apply_roster_json_contacts_: a roster replaces all contacts, and one that is
\* malformed from end to end replaces none.
SetContactsJson(p, roster) ==
    LET slots == Slots(roster)
        rows == Offered(slots)
        good == Only(rows, {i \in DOMAIN rows : rows[i].ep # None /\ rows[i].route \in Names})
        known == [p EXCEPT !.ha = IF HaRow(slots) # 0 THEN slots[HaRow(slots)].name ELSE @,
                           !.seen = IF p.active THEN @ \cup {rows[i].name : i \in DOMAIN rows}
                                               ELSE @]
        ignored == Parsed(roster) = <<>> /\ roster.rows # <<>>
        new == IF ignored THEN p ELSE Replace(known, good)
    IN  PublishIf(AutoSelect(new), ~SameEntries(p, new) \/ PicksHa(new))

SetContacts(p, source) ==
    IF source.kind = "csv" THEN SetContactsCsv(p, source.rows) ELSE SetContactsJson(p, source)

Closed(p) == [p EXCEPT !.seen = {}, !.active = FALSE, !.late = FALSE]

\* commit_cycle_ tells the user only when somebody was removed.
CommitCycle(p) ==
    LET pruned == Closed(Prune(p))
    IN  IF Len(pruned.entries) = Len(p.entries) THEN pruned ELSE Publish(AutoSelect(pruned))

OpenCycle(p) == [p EXCEPT !.active = TRUE, !.late = FALSE, !.seen = {}, !.looping = TRUE]

-----------------------------------------------------------------------------
(* Handlers of the main loop. *)

Handle(p) == step = "loop" /\ ph' = p /\ UNCHANGED step

AddContact ==
    \E row \in Rows :
        LET added == AddBatch(ph, Normalized(<<row>>))
        IN  Handle(PublishIf(added, ~SameEntries(ph, added)))

RemoveContact ==
    \E x \in Names :
        LET removed == RemoveOne(ph, x)
        IN  Handle(PublishIf(removed, ~SameEntries(ph, removed)))

PushContacts == \E source \in Batches \cup Rosters : Handle(SetContacts(ph, source))

\* update_contacts closes a cycle that is still open, opens the next one and
\* reads the phonebook sensor of Home Assistant, if there is one.
UpdateContacts ==
    LET open == OpenCycle(IF ph.active THEN CommitCycle(ph) ELSE ph)
    IN  Handle(open) \/ \E source \in Batches \cup Rosters : Handle(SetContacts(open, source))

\* Mutant: the cursor stays where it was.
FlushKeepingCursor == Handle(Publish([ph EXCEPT !.entries = <<>>]))

FlushContacts == Handle(Publish([ph EXCEPT !.entries = <<>>, !.cursor = 1]))

SetContact ==
    \E x \in Names : Find(ph, x) # 0 /\ Handle(Publish(Select(ph, x)))

SetHaPeerName == \E x \in HaNames : Handle([ph EXCEPT !.ha = x])

\* next_contact and prev_contact also put the outcome of the last call away.
Browsed(p, k) ==
    Publish([p EXCEPT !.cursor = ((@ - 1 + k) % Len(p.entries)) + 1,
                      !.reason = FALSE, !.last = None])

NextContact == ph.entries # <<>> /\ Handle(Browsed(ph, 1))
PrevContact == ph.entries # <<>> /\ Handle(Browsed(ph, Len(ph.entries) - 1))

CycleTimesOut == step = "loop" /\ ph.active /\ ~ph.late /\ Handle([ph EXCEPT !.late = TRUE])

\* Mutant: an open cycle does not keep the loop running.
LoopForCallsOnly ==
    LET p == IF ph.active /\ ph.late THEN CommitCycle(ph) ELSE ph
    IN  ph.looping /\ Handle([p EXCEPT !.looping = p.call.state # "IDLE"])

\* loop(): an open cycle is closed by force after CYCLE_TIMEOUT_MS, and the
\* loop runs while there is a cycle to close or a call to watch.
Loop ==
    LET p == IF ph.active /\ ph.late THEN CommitCycle(ph) ELSE ph
    IN  ph.looping /\ Handle([p EXCEPT !.looping = p.active \/ p.call.state # "IDLE"])

-----------------------------------------------------------------------------
(* Calls. *)

CanStart(p) == p.call.state = "IDLE"

\* end_call_ with an outcome, and the identity of the call cleared.  (tried is
\* not read again before the next call resets it.)
Ended(p) ==
    [p EXCEPT !.pending = None, !.redial = FALSE, !.tried = FALSE, !.reason = TRUE,
              !.last = p.call.dest,
              !.call = [NoCall EXCEPT !.state = "ENDED"]]

\* start_call_attempt_: the target of call_() if there is one, else the selected
\* contact, else Home Assistant, at the endpoint of the selected contact.
Dial(p) ==
    LET dest == IF p.pending # None THEN p.pending
                ELSE IF p.entries # <<>> THEN Selected(p).name
                ELSE IF p.ha # None THEN p.ha ELSE Unknown
        out == [p EXCEPT !.call = [state |-> "OUT", dest |-> dest, ep |-> Selected(p).ep],
                         !.reason = FALSE, !.last = None, !.tried = FALSE,
                         !.redial = FALSE, !.looping = TRUE]
    IN  IF out.call.ep = None THEN Ended(out) ELSE [out EXCEPT !.pending = None]

\* start_with_id_ checks again: an automation may have started a call.
StartWithId(p) == IF CanStart(p) THEN Dial(p) ELSE [p EXCEPT !.pending = None]

Start == ph' = StartWithId(ph) /\ step = "loop" /\ UNCHANGED step

\* Mutant: the HA peer is dialled without being selected.
RoutedUnselected(p, x) == [p EXCEPT !.pending = x]

\* An unknown target goes to Home Assistant, which is selected for it.
Routed(p, x) == [Select(p, p.ha) EXCEPT !.pending = x]

\* on_destination_changed runs only if the shown destination changes.
Choose(p, dest, ep) ==
    /\ ph' = [Publish(p) EXCEPT !.asked = [dest |-> dest, ep |-> ep]]
    /\ step' = IF Destination(p) # ph.shown THEN "publishing" ELSE "placing"

EndpointOf(x) == ph.entries[Find(ph, x)].ep

CallViaPeer(x) ==
    /\ ph.ha # None /\ Find(ph, ph.ha) # 0
    /\ Choose(Routed(ph, x), x, EndpointOf(ph.ha))

\* call_: a contact is called by its name or route, anything else is left to
\* Home Assistant.
Call ==
    /\ step = "loop" /\ CanStart(ph)
    /\ \E x \in Names :
          IF Find(ph, x) = 0 THEN CallViaPeer(x)
          ELSE Choose([Select(ph, x) EXCEPT !.pending = None],
                      ph.entries[Find(ph, x)].name, EndpointOf(x))

\* call_via_ha with a Call-ID goes to Home Assistant whoever is in the phonebook.
CallViaHa == step = "loop" /\ CanStart(ph) /\ \E x \in Names : CallViaPeer(x)

\* The automation may start a call, or browse and so choose another contact.
Automate ==
    /\ step = "publishing"
    /\ \/ ph' = StartWithId(ph)
       \/ ph.entries # <<>> /\ ph' = [Browsed(ph, 1) EXCEPT !.asked = Nobody]
    /\ UNCHANGED step

\* The rest of call_, once the automation is through.
PlaceCall ==
    /\ step # "loop"
    /\ ph' = [StartWithId(ph) EXCEPT !.asked = Nobody]
    /\ step' = "loop"

\* The transport refuses the call because of a transaction that is not over and
\* was not there a moment ago; nothing is published.
RefusedCall ==
    /\ step # "loop"
    /\ ph' = [ph EXCEPT !.pending = None, !.asked = Nobody, !.refused = TRUE]
    /\ step' = "loop"

\* An incoming call that rings puts the outcome of the last call away.
IncomingCall ==
    /\ ph.call.state = "IDLE"
    /\ Handle([ph EXCEPT !.call.state = "IN", !.reason = FALSE, !.last = None, !.looping = TRUE])

\* The callee answers, and the call falls back no more.
Answered ==
    /\ ph.call.state = "OUT" /\ ~ph.redial
    /\ Handle([ph EXCEPT !.call.state = "UP", !.call.ep = None, !.tried = FALSE])

EndCall == ph.call.state \in {"OUT", "UP", "IN"} /\ Handle(Ended(ph))

\* The callee has no common format: the call is tried once more through Home
\* Assistant, unless that is who is selected.
FallBack ==
    /\ ph.call.state = "OUT" /\ ~ph.tried /\ ph.call.dest # None
    /\ ph.ha # None /\ Selected(ph).name # ph.ha /\ Find(ph, ph.ha) # 0
    /\ Handle([ph EXCEPT !.redial = TRUE, !.tried = TRUE, !.pending = None])

\* finish_call_termination_ of the attempt that failed.
Redial ==
    /\ ph.redial
    /\ LET ep == IF Find(ph, ph.ha) = 0 THEN None ELSE ph.entries[Find(ph, ph.ha)].ep
           again == [ph EXCEPT !.call.ep = ep, !.redial = FALSE]
       IN  Handle(IF ep = None THEN Ended(again) ELSE again)

\* Mutant: going idle does not refresh what is shown.
FinishUnpublished ==
    ph.call.state = "ENDED" /\ Handle([ph EXCEPT !.call = NoCall])

Finish == ph.call.state = "ENDED" /\ Handle(Publish([ph EXCEPT !.call = NoCall]))

Sources == AddContact \/ RemoveContact \/ PushContacts \/ UpdateContacts \/ FlushContacts

User == SetContact \/ SetHaPeerName \/ NextContact \/ PrevContact

Calls == \/ Start \/ Call \/ CallViaHa \/ Automate \/ PlaceCall \/ RefusedCall
         \/ IncomingCall \/ Answered \/ EndCall \/ FallBack \/ Redial \/ Finish

Next == Sources \/ User \/ CycleTimesOut \/ Loop \/ Calls

Spec == Init /\ [][Next]_vars

-----------------------------------------------------------------------------
TypeOK ==
    /\ ph \in PhoneType /\ Len(ph.entries) <= MaxContacts
    /\ ph.cursor <= Len(ph.entries) \/ ph.cursor = 1
    /\ step \in {"loop", "publishing", "placing"}

Routes(p) == {p.entries[i].route : i \in DOMAIN p.entries}

\* No contact goes by the name of another, nor by its route: select() cannot
\* tell names from routes, and pruning removes by name.
Distinct(p) ==
    \A i, j \in DOMAIN p.entries :
        i # j => p.entries[i].name \notin {p.entries[j].name, p.entries[j].route}

\* A route has one slot, whichever of the sources, in whatever order, adds,
\* renames and replaces contacts: a lookup never finds a stale twin first.
RouteHasOneSlot == Cardinality(Routes(ph)) = Len(ph.entries)

\* Closing the open cycle would remove the contact e.
Due(p, e) == p.active /\ e.name \notin p.seen /\ e.miss + 1 >= Threshold

\* Whoever is selected stays selected: while the contact is in the phonebook,
\* only the user, or the one selection of Home Assistant after the start, moves
\* the selection.  Batches, rosters, removals and pruning rearrange the slots
\* under a cursor that is an index.  (update_contacts() may prune a contact and
\* find it in the source again.)
SelectionSurvives ==
    [][(/\ Selected(ph).route \in Routes(ph') /\ ~Due(ph, Selected(ph))
        /\ Distinct(ph) /\ Distinct(ph')
        /\ Selected(ph').route # Selected(ph).route)
            => (User \/ Calls \/ ph'.picked # ph.picked)]_vars

\* Closing a cycle removes nobody whom a source named in it, nor anybody who
\* was missing for fewer cycles than the threshold.  Removal goes by name, so
\* this is said of phonebooks whose names differ.
PrunesOnlyStale ==
    [][(ph.active /\ ~ph'.active /\ Distinct(ph)) =>
        \A i \in DOMAIN ph.entries :
            ~Due(ph, ph.entries[i]) => ph.entries[i].route \in Routes(ph')]_vars

\* What the user reads is what a press of the call button would call, or whom
\* the last call was for: no handler that changes contacts, cursor or call
\* forgets to publish.  (A call refused at the last moment does.)
ShownDestination ==
    (step = "loop" /\ ph.call.state = "IDLE" /\ Distinct(ph) /\ ~ph.refused)
        => ph.shown = Destination(ph)

\* "Local phonebook matches go direct; unresolved targets route through HA."
\* A call that call() places is for the target it was given, at the endpoint
\* the dial plan gives for it, although an automation ran in between, unless
\* that automation moves the selection itself.
CallGoesWhereAsked ==
    [][(ph.asked # Nobody /\ ph.call.state = "IDLE" /\ ph'.call.state = "OUT")
        => ph'.call.dest = ph.asked.dest /\ ph'.call.ep = ph.asked.ep]_vars

\* An open update cycle has a loop() that will close it: a source that never
\* completes its update cannot block the counting of missing contacts, even
\* when the phone goes idle and stops its loop in the meantime.
OpenCycleIsWatched == ph.active => ph.looping

\* Whom call_() would dial if it went on now.
Target(p) ==
    [dest |-> IF p.pending # None THEN p.pending ELSE Selected(p).name, ep |-> Selected(p).ep]

\* Until the automation chooses somebody else, a call that was asked for would
\* go to the contact that call_() looked up: nothing else runs in between that
\* moves the cursor or the pending target.
AskedIsDialled ==
    ph.asked # Nobody =>
        /\ step # "loop"
        /\ ph.call.state = "IDLE" => ph.entries # <<>> /\ ph.asked = Target(ph)

\* The contacts, the open cycle, what is shown of them and what is dialled agree
\* between any two handlers.
PhonebookInv ==
    TypeOK /\ RouteHasOneSlot /\ ShownDestination /\ OpenCycleIsWatched /\ AskedIsDialled

=============================================================================
