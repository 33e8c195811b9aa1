------------------------------ MODULE Settings ------------------------------
(***************************************************************************)
(* What VoipStack keeps over a restart: volume and microphone gain in one   *)
(* preference, extension and groups in another, and the switches, which the *)
(* Switch class of ESPHome keeps.  A change is saved 250 ms later; a saved   *)
(* preference reaches the flash when ESPHome next writes it; the phone may   *)
(* lose power at any time.                                                  *)
(*                                                                         *)
(* Volume and gain are counted in half steps, because they are stored in    *)
(* whole ones.  Texts are sequences of a few characters, because what is    *)
(* restored has gone through normalization once more: " " is a blank, "|" a *)
(* character that is dropped, "," the separator of groups.                  *)
(***************************************************************************)
EXTENDS Integers, Sequences, FiniteSets, SequencesExt

CONSTANTS
    Volumes,        \* volumes set by users and actions, in half steps
    Gains,          \* gains, in half steps
    FullVolume,     \* 1.0f, in half steps
    MaxGain,        \* 20.0f dB, in half steps
    Labels,         \* texts given as an extension
    GroupTexts,     \* texts given as a list of groups
    MaxLabel,       \* MAX_EXTENSION_BYTES
    MaxGroup,       \* MAX_GROUP_BYTES
    MaxList,        \* MAX_GROUP_LIST_BYTES
    Unsaved,        \* stands for a preference that was never saved
    YamlLabel, YamlGroups, YamlRing,    \* what the configuration says
    Restoring,      \* switches with restore mode RESTORE_DEFAULT_*: they remember
    StartOn,        \* switches whose restore mode says on: *_ON
    Unrestored,     \* switches with restore mode DISABLED
    MaxChanges,     \* bound on what users do
    MaxCrashes      \* bound on power losses

Switches == {"conference_ring", "auto_answer", "dnd"}

ASSUME SettingsAssumption ==
    /\ FullVolume \in Nat /\ MaxGain \in Nat
    /\ Volumes \subseteq Nat /\ Gains \subseteq Int
    /\ MaxLabel \in Nat /\ MaxGroup \in Nat /\ MaxList \in Nat
    /\ YamlRing \in BOOLEAN
    /\ Restoring \cup StartOn \subseteq Switches
    /\ Unrestored \subseteq Switches \ (Restoring \cup StartOn)
    /\ MaxChanges \in Nat /\ MaxCrashes \in Nat

VARIABLES
    phone,      \* see PhoneType
    flash,      \* the preferences in flash
    changes,    \* bounds MaxChanges
    crashes     \* bounds MaxCrashes

vars == <<phone, flash, changes, crashes>>

Text == Seq({"x", "y", " ", "|", ","})

Fields == {"extension", "ring_groups", "conference_groups"}

StoreType ==
    [settings : [vol : 0..FullVolume, gain : -MaxGain..MaxGain] \cup {Unsaved},
     routing : [Fields -> Text] \cup {Unsaved},
     on : [Switches -> BOOLEAN \cup {Unsaved}]]

PhoneType ==
    [up : BOOLEAN,
     vol : 0..FullVolume,
     gain : -MaxGain..MaxGain,
     buffer : BOOLEAN,                      \* mic_converted_ is allocated
     text : [Fields -> Text],
     on : [Switches -> BOOLEAN],            \* conference_ring_, auto_answer_, do_not_disturb_
     loaded : BOOLEAN,                      \* routing_settings_loaded_
     scheduled : SUBSET {"settings", "routing"},
     applied : BOOLEAN,                     \* entity_restore_applied_
     shown : [text : [Fields -> Text], on : [Switches -> BOOLEAN]],
     touched : BOOLEAN,                     \* history: a user changed something since the boot
     pref : StoreType]                      \* the preferences as ESPHome holds them in memory

-----------------------------------------------------------------------------
(* Normalization. *)

Least(a, b) == IF a < b THEN a ELSE b

Prefix(t, n) == SubSeq(t, 1, Least(n, Len(t)))

\* Phonebook::trim.
Trim(t) ==
    LET ink == {i \in DOMAIN t : t[i] # " "}
    IN  IF ink = {} THEN <<>> ELSE SubSeq(t, Min(ink), Max(ink))

\* normalize_endpoint_label trims before it drops characters and cuts.
Label(t) == Prefix(SelectSeq(Trim(t), LAMBDA c : c \notin {"|", ","}), MaxLabel)

\* The end of a group: it joins the list unless it or the list gets too long.
Flush(s) ==
    LET group == Trim(s.group)
        joined == IF s.list = <<>> THEN group ELSE s.list \o <<",">> \o group
    IN  [group |-> <<>>,
         list |-> IF group = <<>> \/ Len(group) > MaxGroup \/ Len(joined) > MaxList
                  THEN s.list ELSE joined]

\* normalize_group_list.
GroupList(t) ==
    LET Read(s, c) == IF c = "," THEN Flush(s)
                      ELSE IF c = "|" THEN s ELSE [s EXCEPT !.group = Append(@, c)]
    IN  Flush(FoldLeft(Read, [group |-> <<>>, list |-> <<>>], t)).list

\* std::lround.
Round(halves) == IF halves >= 0 THEN (halves + 1) \div 2 ELSE -((1 - halves) \div 2)

\* Mutant: a volume is taken as it comes.
UnclampedVolume(v) == v

ClampVolume(v) == Least(v, FullVolume)

ClampGain(g) == IF g < -MaxGain THEN -MaxGain ELSE Least(g, MaxGain)

-----------------------------------------------------------------------------
(* The setters. *)

\* Publishing a switch also saves it, once its preference has been opened.
PublishSwitch(p, s) ==
    [p EXCEPT !.shown.on[s] = p.on[s],
              !.pref.on[s] = IF p.applied /\ s \in Restoring THEN p.on[s] ELSE @]

ScheduleSave(p) == [p EXCEPT !.scheduled = @ \cup {"settings"}]

\* Mutant: loading schedules saves, too.
ScheduleRoutingAlways(p) == [p EXCEPT !.scheduled = @ \cup {"routing"}]

ScheduleSaveRouting(p) ==
    IF p.loaded THEN [p EXCEPT !.scheduled = @ \cup {"routing"}] ELSE p

SetVolume(p, v) == ScheduleSave([p EXCEPT !.vol = ClampVolume(v)])

\* ensure_mic_processing_buffer_ may fail until it has succeeded once.
SetMicGain(p, g, allocated) ==
    LET buffer == p.buffer \/ allocated
    IN  IF ClampGain(g) = 0 THEN ScheduleSave([p EXCEPT !.gain = 0])
        ELSE IF buffer THEN ScheduleSave([p EXCEPT !.gain = ClampGain(g), !.buffer = TRUE])
        ELSE p

SetConferenceRing(p, wanted) ==
    PublishSwitch([p EXCEPT !.on["conference_ring"] = wanted /\ p.text["conference_groups"] # <<>>],
                  "conference_ring")

SetText(p, field, t) ==
    IF t = p.text[field] THEN p
    ELSE ScheduleSaveRouting([p EXCEPT !.text[field] = t, !.shown.text[field] = t])

SetExtension(p, t) == SetText(p, "extension", Label(t))

SetRingGroups(p, t) == SetText(p, "ring_groups", GroupList(t))

\* Mutant: the ring is switched off without telling anybody.
SetConferenceGroupsQuietly(p, t) ==
    [SetText(p, "conference_groups", GroupList(t)) EXCEPT
        !.on["conference_ring"] = @ /\ GroupList(t) # <<>>]

\* Without groups there is no conference to ring for.
SetConferenceGroups(p, t) ==
    LET set == SetText(p, "conference_groups", GroupList(t))
    IN  IF GroupList(t) = <<>> /\ p.on["conference_ring"]
        THEN SetConferenceRing(set, FALSE) ELSE set

SetSwitch(p, s, wanted) == PublishSwitch([p EXCEPT !.on[s] = wanted], s)

-----------------------------------------------------------------------------
(* Booting: the configuration first, then what is stored. *)

Configured(pref) ==
    LET blank == [up |-> FALSE, vol |-> FullVolume, gain |-> 0, buffer |-> FALSE,
                  text |-> [f \in Fields |-> <<>>], on |-> [s \in Switches |-> s = "auto_answer"],
                  loaded |-> FALSE, scheduled |-> {}, applied |-> FALSE, touched |-> FALSE,
                  shown |-> [text |-> [f \in Fields |-> <<>>], on |-> [s \in Switches |-> FALSE]],
                  pref |-> pref]
        grouped == SetConferenceGroups(SetExtension(blank, YamlLabel), YamlGroups)
    IN  SetRingGroups(SetConferenceRing(grouped, YamlRing), YamlGroups)

\* load_settings_; a stored gain is of no use without the buffer.
LoadSettings(p, allocated) ==
    LET stored == p.pref.settings
        gain == ClampGain(2 * stored.gain)
    IN  IF stored = Unsaved THEN p
        ELSE [p EXCEPT !.vol = ClampVolume(2 * stored.vol),
                       !.gain = IF allocated THEN gain ELSE 0,
                       !.buffer = allocated /\ gain # 0]

LoadRoutingSettings(p) ==
    LET stored == p.pref.routing
        restored == SetConferenceGroups(SetRingGroups(SetExtension(p, stored["extension"]),
                                                      stored["ring_groups"]),
                                        stored["conference_groups"])
    IN  [(IF stored = Unsaved THEN p ELSE restored) EXCEPT !.loaded = TRUE]

NoStore == [settings |-> Unsaved, routing |-> Unsaved, on |-> [s \in Switches |-> Unsaved]]

Fresh == Configured(NoStore)

Init ==
    /\ phone = Fresh /\ flash = NoStore
    /\ changes = 0 /\ crashes = 0

Setup ==
    /\ ~phone.up
    /\ \E allocated \in BOOLEAN :
          phone' = [LoadRoutingSettings(LoadSettings(phone, allocated)) EXCEPT !.up = TRUE]
    /\ UNCHANGED <<flash, changes, crashes>>

-----------------------------------------------------------------------------
(* Handlers of the main loop. *)

User(p) ==
    /\ phone.up /\ changes < MaxChanges
    /\ phone' = [p EXCEPT !.touched = TRUE] /\ changes' = changes + 1
    /\ UNCHANGED <<flash, crashes>>

UserSets ==
    \/ \E v \in Volumes : User(SetVolume(phone, v))
    \/ \E g \in Gains, allocated \in BOOLEAN : User(SetMicGain(phone, g, allocated))
    \/ \E t \in Labels : User(SetExtension(phone, t))
    \/ \E t \in GroupTexts : User(SetRingGroups(phone, t)) \/ User(SetConferenceGroups(phone, t))

UserSwitches ==
    \E wanted \in BOOLEAN :
        \/ User(SetConferenceRing(phone, wanted))
        \/ \E s \in Switches \ {"conference_ring"} : User(SetSwitch(phone, s, wanted))

\* get_initial_state_with_restore_mode, for a mode other than DISABLED.
Initial(p, s) ==
    IF s \in Restoring /\ p.pref.on[s] # Unsaved THEN p.pref.on[s] ELSE s \in StartOn

\* Mutant: the ring is restored although there are no groups any more.
AdmittedBlindly(p, s) == TRUE

\* Without groups the ring stays off.
Admitted(p, s) == s = "conference_ring" => p.text["conference_groups"] # <<>>

\* Mutant: every connection restores the switches.
RestoredAtEachConnection(p) ==
    [p EXCEPT !.applied = TRUE,
              !.on = [s \in Switches |-> IF s \in Unrestored THEN p.on[s]
                                         ELSE Initial(p, s) /\ Admitted(p, s)]]

\* The first connection of Home Assistant restores the switches; one whose mode
\* gives no initial value keeps its state.
Restored(p) ==
    [p EXCEPT !.applied = TRUE,
              !.on = [s \in Switches |-> IF p.applied \/ s \in Unrestored THEN p.on[s]
                                         ELSE Initial(p, s) /\ Admitted(p, s)]]

PublishEntityStates ==
    /\ phone.up
    /\ LET all == [Restored(phone) EXCEPT !.shown.text = phone.text]
       IN  phone' = PublishSwitch(PublishSwitch(PublishSwitch(all, "conference_ring"),
                                                "auto_answer"), "dnd")
    /\ UNCHANGED <<flash, changes, crashes>>

Saved(p) == [vol |-> Round(p.vol), gain |-> Round(p.gain)]

\* Mutant: the timer does not clear its flag, so it is never set again.
SaveSettingsOnce ==
    /\ phone.up /\ "settings" \in phone.scheduled /\ phone.pref.settings = Unsaved
    /\ phone' = [phone EXCEPT !.pref.settings = Saved(phone)]
    /\ UNCHANGED <<flash, changes, crashes>>

SaveSettings ==
    /\ phone.up /\ "settings" \in phone.scheduled
    /\ phone' = [phone EXCEPT !.scheduled = @ \ {"settings"}, !.pref.settings = Saved(phone)]
    /\ UNCHANGED <<flash, changes, crashes>>

\* Mutant: the last byte that fits is lost.
StoredShort(p) ==
    [f \in Fields |-> Prefix(p.text[f], IF f = "extension" THEN MaxLabel - 1 ELSE MaxList - 1)]

\* copy_bounded.
Stored(p) == [f \in Fields |-> Prefix(p.text[f], IF f = "extension" THEN MaxLabel ELSE MaxList)]

SaveRoutingSettings ==
    /\ phone.up /\ "routing" \in phone.scheduled
    /\ phone' = [phone EXCEPT !.scheduled = @ \ {"routing"}, !.pref.routing = Stored(phone)]
    /\ UNCHANGED <<flash, changes, crashes>>

\* ESPHome writes the preferences it holds.
Sync ==
    /\ flash # phone.pref /\ flash' = phone.pref
    /\ UNCHANGED <<phone, changes, crashes>>

PowerLoss ==
    /\ phone.up /\ crashes < MaxCrashes
    /\ phone' = Configured(flash) /\ crashes' = crashes + 1
    /\ UNCHANGED <<flash, changes>>

Next ==
    \/ Setup \/ UserSets \/ UserSwitches \/ PublishEntityStates
    \/ SaveSettings \/ SaveRoutingSettings \/ Sync \/ PowerLoss

Fairness ==
    /\ WF_vars(Setup) /\ WF_vars(Sync)
    /\ WF_vars(SaveSettings) /\ WF_vars(SaveRoutingSettings)

Spec == Init /\ [][Next]_vars /\ Fairness

-----------------------------------------------------------------------------
TypeOK ==
    /\ phone \in PhoneType /\ flash \in StoreType
    /\ changes \in 0..MaxChanges /\ crashes \in 0..MaxCrashes

\* The store has what the phone is set to, up to the rounding of half steps, a
\* gain dropped for want of a buffer, and the blanks that normalizing a label
\* can leave at its ends and normalizing it again removes; and, from the first
\* connection of Home Assistant on, the switches that remember as they are.
Keeps(store) ==
    /\ IF store.settings = Unsaved THEN phone.vol = FullVolume /\ phone.gain = 0
       ELSE /\ store.settings.vol = Round(phone.vol)
            /\ store.settings.gain = Round(phone.gain) \/ (phone.gain = 0 /\ ~phone.buffer)
    /\ LET held == IF store.routing = Unsaved THEN Fresh.text ELSE store.routing
       IN  /\ phone.text["extension"] \in {held["extension"], Trim(held["extension"])}
           /\ phone.text["ring_groups"] = held["ring_groups"]
           /\ phone.text["conference_groups"] = held["conference_groups"]
    /\ phone.applied => \A s \in Restoring : store.on[s] = phone.on[s]

\* Restoring writes nothing: a boot at which nobody changes a setting schedules
\* no save, so restarts do not wear the flash.
BootWritesNothing == ~phone.touched => phone.scheduled = {}

\* Nobody is rung for conferences of no group, in whatever order groups are
\* cleared, the switch is thrown, and either is lost or restored.
RingNeedsGroups ==
    phone.on["conference_ring"] => phone.text["conference_groups"] # <<>>

\* From the first connection on, Home Assistant sees what is in force, also
\* where one setting takes another along.
ShownIsInForce ==
    phone.applied => phone.shown = [text |-> phone.text, on |-> phone.on]

\* What is in force is consistent with itself, with what is shown and with what
\* was asked for.
SettingsInv == TypeOK /\ BootWritesNothing /\ RingNeedsGroups /\ ShownIsInForce

\* "a reconnect must not roll runtime state back to the boot preference": once
\* restored, a switch moves only when somebody moves it, clears the groups, or
\* the power goes.
ReconnectRollsNothingBack ==
    [][(phone.applied /\ phone'.on # phone.on) => (changes' # changes \/ crashes' # crashes)]_vars


=============================================================================
