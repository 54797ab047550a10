------------------------------ MODULE CronForm ------------------------------
(***************************************************************************)
(* The schedule form and its cron expressions: what the server composes    *)
(* from the form, what the edit form is prefilled with, what the list and  *)
(* the form's preview say (internal/webui/mapper.go, the script of         *)
(* web/templates/pages/schedules_form) and what the service accepts        *)
(* (internal/scheduling/service.go).  A field of an expression is a number *)
(* or a Star; Other stands for a step, a list or a range.  Padding a       *)
(* number with a zero does not change it.                                  *)
(***************************************************************************)
EXTENDS Integers

Star  == -1
Other == -2
Empty == -3   \* a day field left empty, a text without a day

NoWord == "none"   \* no suffix, no phrase, or an undefined one

NoTime == [hour |-> Empty, minute |-> Empty]
NoCron == [minute |-> Empty, hour |-> Empty, dom |-> Empty, month |-> Empty, dow |-> Empty]

FormTypes == {"daily", "weekly", "monthly"}   \* ScheduleTypeOptions

Weekdays  == 0 .. 6                           \* WeekdayOptions
MonthDays == 1 .. 31

-----------------------------------------------------------------------------
\* time.Parse("15:04", t)
ParseClock(time) == time.hour \in 0 .. 23 /\ time.minute \in 0 .. 59

BuildCronExpr(type, time, dow, dom) ==
  IF ~ ParseClock(time) \/ type \notin FormTypes THEN NoCron
  ELSE [minute |-> time.minute, hour |-> time.hour, month |-> Star,
        dom |-> IF type # "monthly" THEN Star ELSE IF dom = Empty THEN 1 ELSE dom,
        dow |-> IF type # "weekly" THEN Star ELSE IF dow = Empty THEN 1 ELSE dow]

CronParts(cron) ==
  [time |-> [hour |-> cron.hour, minute |-> cron.minute],
   dow |-> cron.dow, dom |-> cron.dom]

\* robfig/cron: a field is *, a number in its range, or a step, list or range.
InField(v, numbers) == v \in {Star, Other} \cup numbers

ValidateCronExpr(cron) ==
  /\ InField(cron.minute, 0 .. 59) /\ InField(cron.hour, 0 .. 23)
  /\ InField(cron.dom, MonthDays) /\ InField(cron.month, 1 .. 12)
  /\ InField(cron.dow, Weekdays)

ValidateScheduleType(type) == type \in FormTypes

-----------------------------------------------------------------------------
\* What the list says of an expression: a phrase, a day and a time.

Text(phrase, day, suffix, time) ==
  [phrase |-> phrase, day |-> day, suffix |-> suffix, time |-> time]

CronTime(cron) ==
  IF cron.hour = Star \/ cron.minute = Star THEN NoTime
  ELSE [hour |-> cron.hour, minute |-> cron.minute]

\* Both 0 and 7 are Sunday, but the parser takes no 7.
WeekdayName(dow) == IF dow = 7 THEN 0 ELSE IF dow \in Weekdays THEN dow ELSE Empty

Ordinal(n) ==
  IF n % 100 \in 11 .. 13 THEN "th"
  ELSE CASE n % 10 = 1 -> "st" [] n % 10 = 2 -> "nd" [] n % 10 = 3 -> "rd" [] OTHER -> "th"

DescribeCron(cron) ==
  LET daily   == cron.dom = Star /\ cron.month = Star /\ cron.dow = Star
      weekly  == /\ cron.dom = Star /\ cron.month = Star /\ cron.dow # Star
                 /\ WeekdayName(cron.dow) # Empty
      monthly == cron.dom # Star /\ cron.month = Star /\ cron.dow = Star
      when    == CronTime(cron)
  IN CASE daily /\ cron.hour = Star /\ cron.minute = Star ->
            Text("every minute", Empty, NoWord, NoTime)
       [] daily /\ ~ (cron.hour = Star /\ cron.minute = Star) ->
            Text("every day", Empty, NoWord, when)
       [] weekly -> Text("every", WeekdayName(cron.dow), NoWord, when)
       [] monthly /\ cron.dom \in MonthDays ->
            Text("monthly", cron.dom, Ordinal(cron.dom), when)
       [] monthly /\ cron.dom \notin MonthDays -> Text("monthly", Empty, NoWord, when)
       [] OTHER -> Text("custom", Empty, NoWord, when)

-----------------------------------------------------------------------------
\* The script of the form: what it previews, for fields as they stand.

PreviewTime(form) == IF form.time = NoTime THEN [hour |-> 9, minute |-> 0] ELSE form.time

PreviewCron(form) ==
  LET t == PreviewTime(form) IN
  [minute |-> t.minute, hour |-> t.hour, month |-> Star,
   dom |-> IF form.type # "monthly" THEN Star
           ELSE IF form.dom = Empty THEN 1 ELSE form.dom,
   dow |-> IF form.type # "weekly" THEN Star
           ELSE IF form.dow = Empty THEN 1 ELSE form.dow]

DayLabel(v) == IF v \in Weekdays THEN v ELSE 1

\* s[i], of ['th', 'st', 'nd', 'rd'], or undefined; s[0] is what is left.
JsSuffix(i) ==
  CASE i = 1 -> "st" [] i = 2 -> "nd" [] i = 3 -> "rd" [] OTHER -> NoWord

\* s[(x - 20) % 10] || s[x] || s[0], where % keeps the sign of x - 20.
JsOrdinal(n) ==
  LET x    == n % 100
      some == IF x >= 20 THEN JsSuffix((x - 20) % 10) ELSE NoWord
  IN CASE x % 10 = 0 -> "th"
       [] x % 10 # 0 /\ some # NoWord -> some
       [] x % 10 # 0 /\ some = NoWord /\ JsSuffix(x) # NoWord -> JsSuffix(x)
       [] OTHER -> "th"

PreviewText(form) ==
  LET day == IF form.dom = Empty THEN 1 ELSE form.dom IN
  CASE form.type = "daily" -> Text("every day", Empty, NoWord, PreviewTime(form))
    [] form.type = "weekly" -> Text("every", DayLabel(form.dow), NoWord, PreviewTime(form))
    [] form.type = "monthly" ->
         Text("monthly", day, IF day < 0 THEN "th" ELSE JsOrdinal(day), PreviewTime(form))
    [] OTHER -> Text(NoWord, Empty, NoWord, NoTime)

\* What the browser submits: a time input drops what is no time, and a select
\* without an option for its value submits nothing.
Submitted(form) ==
  [form EXCEPT !.time = IF ParseClock(@) THEN @ ELSE NoTime,
               !.dow = IF @ \in Weekdays THEN @ ELSE Empty,
               !.dom = IF @ \in MonthDays THEN @ ELSE Empty]

Saved(form) ==
  LET sent == Submitted(form) IN BuildCronExpr(sent.type, sent.time, sent.dow, sent.dom)

EditForm(type, cron) ==
  [type |-> type, time |-> CronParts(cron).time, dow |-> CronParts(cron).dow,
   dom |-> CronParts(cron).dom]

-----------------------------------------------------------------------------
\* The day the form's type asks for was never chosen: the form was opened for a
\* schedule of another type, whose expression has no number there.
DayUnchosen(form) ==
  \/ form.type = "weekly" /\ form.dow \in {Star, Other}
  \/ form.type = "monthly" /\ form.dom \in {Star, Other}

\* An expression the form could have made.
FormShaped(type, cron) ==
  /\ ParseClock(CronParts(cron).time)
  /\ cron.month = Star
  /\ IF type = "monthly" THEN cron.dom \in MonthDays ELSE cron.dom = Star
  /\ IF type = "weekly" THEN cron.dow \in Weekdays ELSE cron.dow = Star

\* What is saved from a form passes the service's validation, survives an edit
\* that changes nothing, and is what the preview showed and the list will show,
\* but for a day that was never chosen, which is previewed as "*" or "NaNth" and
\* saved as Monday or the 1st.
FormAgrees(form) ==
  LET cron == Saved(form) IN
  cron # NoCron =>
    /\ ValidateScheduleType(form.type) /\ ValidateCronExpr(cron)
    /\ FormShaped(form.type, cron)
    /\ Saved(EditForm(form.type, cron)) = cron
    /\ DayUnchosen(form) \/ (/\ PreviewCron(form) = cron
                             /\ PreviewText(form) = DescribeCron(cron))

\* An expression saved through the API keeps its meaning in an edit that changes
\* nothing if it is of the form's shape, is refused if its time is not one, and
\* silently loses its month, list or range otherwise.  What the list says of it
\* says all, unless it is custom, has no fixed time, or names no day.
CronAgrees(type, cron) ==
  LET text == DescribeCron(cron)
      saved == Saved(EditForm(type, cron))
  IN ValidateCronExpr(cron) =>
       /\ saved = cron <=> FormShaped(type, cron)
       /\ saved = NoCron <=> ~ ParseClock(CronParts(cron).time)
       /\ text.phrase \in {"every day", "every", "monthly"} /\ ParseClock(text.time) =>
            cron = [minute |-> text.time.minute, hour |-> text.time.hour, month |-> Star,
                    dow |-> IF text.phrase = "every" THEN text.day ELSE Star,
                    dom |-> IF text.phrase # "monthly" THEN Star
                            ELSE IF text.day = Empty THEN Other ELSE text.day]
=============================================================================
