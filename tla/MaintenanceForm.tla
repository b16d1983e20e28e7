--------------------------- MODULE MaintenanceForm ---------------------------
(***************************************************************************)
(* The maintenance page: the polled list, the form that decodes one entry, *)
(* lets the user change it, encodes it again and replaces the whole entry  *)
(* at Zabbix, and the form for a new one.                                  *)
(*                                                                         *)
(* Times are seconds.  The browser's clock is changed once, between summer *)
(* and winter time, say; the form shows its times by that clock.  Bit      *)
(* masks of weekdays and months are the sets they stand for.  Names,       *)
(* descriptions and the search boxes are left out.                         *)
(***************************************************************************)
EXTENDS Integers, FiniteSets

CONSTANTS
    Windows,        \* the maintenances Zabbix may hold, see Window
    Target,         \* hosts and groups
    Minutes,        \* the lengths the user chooses from, in minutes
    Absent, Closed, \* no maintenance; no request
    Now,            \* the time a new form starts with
    Zone            \* the local clock: [before, after, change], see ZoneAssumption

VARIABLES
    stored,         \* the maintenance at Zabbix
    listed,         \* as the page last read it
    form,           \* what the form holds, and the entry it was decoded from
    request         \* the save or delete under way

vars == <<stored, listed, form, request>>

(* timeperiod_type *)
Once    == 0
Daily   == 2
Weekly  == 3
Monthly == 4

Year    == 365 * 86400
Months  == 1 .. 12
Weekday == 0 .. 6
MonthDay == 0 .. 31
Clock   == {t \in Nat : t < 86400}

(* An entry as maintenance.get gives it, with one time period.             *)
Window(w) ==
    w \in [type : {Once, Daily, Weekly, Monthly}, since : Int, till : Int,
           period : Nat, date : Int, time : Clock, every : Nat,
           weekdays : SUBSET Weekday, months : SUBSET Months, day : MonthDay,
           targets : SUBSET Target]

(* Zabbix keeps the times to the minute, and nothing of what the type does *)
(* not use.                                                                *)
Tidy(w) ==
    IF w.type = Once THEN w.date % 60 = 0
    ELSE /\ w.since % 60 = 0 /\ w.till % 60 = 0 /\ w.time % 60 = 0
         /\ w.type = Monthly \/ (w.every > 0 /\ w.months = {} /\ w.day = 0)
         /\ w.type = Daily => w.weekdays = {}
         /\ w.type = Monthly /\ w.weekdays # {} => w.day = 0

(* What is added to a time before the change and from it on, in whole      *)
(* minutes: twelve hours less to fourteen hours more, two hours apart at   *)
(* most.                                                                   *)
ZoneAssumption ==
    /\ Zone.before \in Int /\ Zone.after \in Int /\ Zone.change \in Int
    /\ Zone.before % 60 = 0 /\ Zone.after % 60 = 0
    /\ 0 - 43200 <= Zone.before /\ Zone.before <= 50400
    /\ 0 - 43200 <= Zone.after  /\ Zone.after  <= 50400
    /\ Zone.before - Zone.after <= 7200 /\ Zone.after - Zone.before <= 7200

MaintenanceAssumption ==
    /\ ZoneAssumption
    /\ \A w \in Windows : Window(w) /\ Tidy(w)
    /\ ~Window(Absent)
    /\ Now \in Nat /\ Minutes \subseteq Nat

Blank == [type |-> Once, since |-> 0, till |-> 0, period |-> 0, date |-> 0,
          time |-> 0, every |-> 0, weekdays |-> {}, months |-> {}, day |-> 0,
          targets |-> {}]

---------------------------------------------------------------------------
(* From an entry to the form.                                              *)

(* What a time input keeps of a number of seconds.                         *)
ToMinute(t) == (t \div 60) * 60

Offset(t) == IF t < Zone.change THEN Zone.before ELSE Zone.after

(* The time at which the clock shows this: the first of two when it was    *)
(* set back, and by the old clock what is left out when it was set forward.*)
(* new Date("...T...") reads an input so, and setMinutes its new value.    *)
FromLocal(shown) ==
    LET late == shown - Zone.after
    IN  IF late >= Zone.change /\ shown - Zone.before >= Zone.change
        THEN late ELSE shown - Zone.before

(* toLocalDateTime puts the clock forward by its offset, to be printed as  *)
(* if it were UTC; setMinutes reads the clock anew at the time it comes to.*)
ToLocal(t) == ToMinute(FromLocal(t + Offset(t) + Offset(t)))

TheOne(S) == CHOOSE x \in S : TRUE

(* The recurrence the form shows, "none" when it cannot show the entry.    *)
Recurrence(w) ==
    CASE w.type = Once   -> "once"
      [] w.type = Daily  -> "daily"
      [] w.type = Weekly -> IF w.weekdays = {} THEN "none" ELSE "weekly"
      [] w.type = Monthly /\ w.weekdays = {} ->
            IF w.day = 0 THEN "none"
            ELSE IF Cardinality(w.months) = 1 THEN "yearly"
            ELSE IF w.months = Months THEN "monthlyDay" ELSE "none"
      [] OTHER ->
            IF Cardinality(w.weekdays) = 1 /\ w.months = Months /\ w.every \in 1 .. 5
            THEN "monthlyWeekday" ELSE "none"

PresetMinutes == {5, 10, 15, 30, 60, 240, 480, 1440, 10080}

(* decodeDuration and what submit makes of it: a preset, or a number of    *)
(* minutes, or a number of hours that is rounded to two digits.            *)
AsShown(seconds) ==
    LET minutes == seconds \div 60
        whole   == seconds % 60 = 0
    IN  IF whole /\ (minutes \in PresetMinutes \/ (minutes % 60 # 0 /\ minutes < 600))
        THEN seconds
        ELSE ((seconds * 100 + 1800) \div 3600) * 36

(* (mutant) the number of weeks is not decoded                             *)
Decoded_everyWeek(w) ==
    [recurrence |-> Recurrence(w),
     start |-> ToLocal(IF w.type = Once THEN w.date ELSE w.since),
     till |-> ToLocal(IF w.type = Once THEN Now + Year ELSE w.till),
     duration |-> AsShown(w.period),
     time |-> ToMinute(w.time), every |-> IF w.type = Weekly THEN 1 ELSE w.every,
     weekdays |-> w.weekdays, day |-> w.day, months |-> w.months,
     targets |-> w.targets]

(* maintenanceToFormState and the initial values of the inputs.            *)
Decoded(w) ==
    [recurrence |-> Recurrence(w),
     start    |-> ToLocal(IF w.type = Once THEN w.date ELSE w.since),
     till     |-> ToLocal(IF w.type = Once THEN Now + Year ELSE w.till),
     duration |-> AsShown(w.period),
     time     |-> ToMinute(w.time),
     every    |-> IF w.type \in {Daily, Weekly, Monthly} /\ w.every > 0 THEN w.every ELSE 1,
     weekdays |-> w.weekdays, day |-> w.day, months |-> w.months,
     targets  |-> w.targets]

NewForm ==
    [recurrence |-> "once", start |-> ToLocal(Now), till |-> ToLocal(Now + Year),
     duration |-> 3600, time |-> 9 * 3600, every |-> 1, weekdays |-> {},
     day |-> 1, months |-> {1}, targets |-> {}]

---------------------------------------------------------------------------
(* From the form to what is sent: submit and buildMaintenancePayload.      *)

Accepted(f) ==
    /\ f.targets # {}
    /\ f.duration > 0
    /\ f.recurrence # "once" => FromLocal(f.till) > FromLocal(f.start)
    /\ f.recurrence \in {"weekly", "monthlyWeekday"} => f.weekdays # {}
    /\ f.recurrence \in {"monthlyDay", "yearly"} => f.day # 0

Payload(f) ==
    LET start == FromLocal(f.start)
        frame == [Blank EXCEPT !.since = start, !.till = FromLocal(f.till),
                               !.period = f.duration, !.time = f.time,
                               !.targets = f.targets]
    IN  CASE f.recurrence = "once" ->
               [Blank EXCEPT !.since = start, !.till = start + f.duration,
                             !.period = f.duration, !.date = start,
                             !.targets = f.targets]
          [] f.recurrence = "daily" ->
               [frame EXCEPT !.type = Daily, !.every = f.every]
          [] f.recurrence = "weekly" ->
               [frame EXCEPT !.type = Weekly, !.every = f.every, !.weekdays = f.weekdays]
          [] f.recurrence = "monthlyDay" ->
               [frame EXCEPT !.type = Monthly, !.months = Months, !.day = f.day]
          [] f.recurrence = "monthlyWeekday" ->
               [frame EXCEPT !.type = Monthly, !.months = Months, !.every = f.every,
                             !.weekdays = {TheOne(f.weekdays)}]
          [] f.recurrence = "yearly" ->
               [frame EXCEPT !.type = Monthly, !.months = {TheOne(f.months)},
                             !.day = f.day]

---------------------------------------------------------------------------
Init ==
    /\ stored \in Windows \cup {Absent}
    /\ listed = stored
    /\ form = [of |-> Absent, input |-> NewForm, touched |-> FALSE]
    /\ request = Closed

(* Another user of Zabbix.                                                 *)
Elsewhere ==
    /\ stored # Absent
    /\ stored' = Absent
    /\ UNCHANGED <<listed, form, request>>

(* The minute's poll, or the refetch a mutation asks for.  When the entry  *)
(* being edited has gone, the form starts anew for a new entry.            *)
Poll ==
    /\ listed' = stored
    /\ form' = IF stored = Absent /\ form.of # Absent
               THEN [of |-> Absent, input |-> NewForm, touched |-> FALSE]
               ELSE form
    /\ UNCHANGED <<stored, request>>

(* The button is off for an entry the form cannot show.                    *)
Edit ==
    /\ listed # Absent /\ form.of = Absent
    /\ Recurrence(listed) # "none"
    /\ form' = [of |-> listed, input |-> Decoded(listed), touched |-> FALSE]
    /\ UNCHANGED <<stored, listed, request>>

CancelEdit ==
    /\ form.of # Absent /\ request = Closed
    /\ form' = [of |-> Absent, input |-> NewForm, touched |-> FALSE]
    /\ UNCHANGED <<stored, listed, request>>

(* The user fills something in.                                            *)
Fill ==
    /\ \E f \in {[form.input EXCEPT !.duration = n * 60] : n \in Minutes}
                \cup {[form.input EXCEPT !.targets = T] : T \in SUBSET Target} :
         form' = [form EXCEPT !.input = f, !.touched = TRUE]
    /\ UNCHANGED <<stored, listed, request>>

Submit ==
    /\ request = Closed
    /\ Accepted(form.input)
    /\ request' = [kind |-> IF form.of = Absent THEN "create" ELSE "update",
                   of |-> form.of, touched |-> form.touched, done |-> FALSE,
                   payload |-> Payload(form.input)]
    /\ UNCHANGED <<stored, listed, form>>

Delete ==
    /\ request = Closed /\ listed # Absent
    /\ request' = [kind |-> "delete", of |-> listed, touched |-> TRUE,
                   done |-> FALSE, payload |-> Blank]
    /\ UNCHANGED <<stored, listed, form>>

(* Zabbix does it.  An update replaces the entry; one that has gone stays  *)
(* gone.  A second entry is not followed here.                             *)
Execute ==
    /\ request # Closed /\ ~request.done
    /\ stored' = CASE request.kind = "create" ->
                        IF stored = Absent THEN request.payload ELSE stored
                   [] request.kind = "update" ->
                        IF stored = Absent THEN Absent ELSE request.payload
                   [] OTHER -> Absent
    /\ request' = [request EXCEPT !.done = TRUE]
    /\ UNCHANGED <<listed, form>>

(* The answer.  After a success the form it came from is emptied or        *)
(* closed; a form opened meanwhile is another one.  A failure, of a        *)
(* request that may have been done, leaves the form as it is.              *)
Answer ==
    /\ request # Closed
    /\ request' = Closed
    /\ \/ /\ request.done /\ request.kind # "delete" /\ form.of = request.of
          /\ form' = [of |-> Absent, input |-> NewForm, touched |-> FALSE]
       \/ UNCHANGED form
    /\ UNCHANGED <<stored, listed>>

Next == \/ Elsewhere \/ Poll \/ Edit \/ CancelEdit \/ Fill
        \/ Submit \/ Delete \/ Execute \/ Answer

Spec == Init /\ [][Next]_vars

---------------------------------------------------------------------------
TypeOK ==
    /\ stored = Absent \/ Window(stored)
    /\ listed = Absent \/ Window(listed)
    /\ form.of = Absent \/ Window(form.of)
    /\ request = Closed \/ Window(request.payload)

Least(a, b)    == IF a < b THEN a ELSE b
Greatest(a, b) == IF a > b THEN a ELSE b

(* When a maintenance is in force, and for what.                           *)
Plan(w) ==
    IF w = Absent THEN [type |-> "absent"]
    ELSE IF w.type = Once
    THEN [type |-> "once", from |-> Greatest(w.since, w.date),
          till |-> Least(w.till, w.date + w.period), targets |-> w.targets]
    ELSE [type |-> Recurrence(w), since |-> w.since, till |-> w.till,
          period |-> w.period, time |-> w.time, weekdays |-> w.weekdays,
          every |-> IF Recurrence(w) \in {"monthlyDay", "yearly"} THEN 0 ELSE w.every,
          months |-> w.months, day |-> w.day, targets |-> w.targets]

KeptBy(w) == stored # Absent => Plan(stored') = Plan(w)

UntouchedSave ==
    Execute /\ request.kind = "update" /\ ~request.touched

(* The frame does not cut off what the form takes for the whole of it: it  *)
(* never does in an entry made here.                                       *)
Whole(w) == w.type = Once => w.since <= w.date /\ w.date + w.period <= w.till

(* The form shows this entry's length exactly.                             *)
LengthShown(w) == AsShown(w.period) = w.period

(* The clock is not changed within a day of the times the form shows.      *)
Away(t) == t + 86400 <= Zone.change \/ t >= Zone.change + 86400
Calm(w) == IF w.type = Once THEN Away(w.date) ELSE Away(w.since) /\ Away(w.till)

(* Opening an entry and saving it untouched leaves when and where it is in *)
(* force as it was, for every recurrence the form accepts: what the one    *)
(* function decodes the other encodes, through the inputs' local times.    *)
PlanKept ==
    (UntouchedSave /\ Whole(request.of) /\ LengthShown(request.of) /\ Calm(request.of))
        => KeptBy(request.of)

UntouchedSaveKeepsThePlan == [][PlanKept]_vars

(* maintenance.test.ts:590-592 promises it for every entry: "nothing that  *)
(* round-trips through the edit form silently changes".  First of any      *)
(* length, then with its times at any distance from a change of the clock. *)
LengthsStay == (UntouchedSave /\ Whole(request.of) /\ Calm(request.of)) => KeptBy(request.of)
TimesStay == (UntouchedSave /\ Whole(request.of) /\ LengthShown(request.of)) => KeptBy(request.of)

NothingSilentlyChanges == [][LengthsStay /\ TimesStay]_vars
=============================================================================
