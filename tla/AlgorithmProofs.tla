--------------------------- MODULE AlgorithmProofs ---------------------------
(***************************************************************************)
(* Proofs about the pure algorithms, for every input and every setting:    *)
(* the cron expressions of the schedule form (CronForm), what the pages    *)
(* make of budgets, statuses and numbers (Presentation), and the way of a  *)
(* file's text into chunks (Chunking).                                     *)
(*                                                                         *)
(* The loops of Chunking are folds.  What a fold computes is shown with    *)
(* the sequence of its states, in which each state is one turn of the loop *)
(* after the one before; an invariant of the turns then holds of the first *)
(* state that would break it, which there is not (by the least element of  *)
(* a set of numbers), hence of the last.                                   *)
(*                                                                         *)
(* Pages.  After every line the paragraphs made so far hold the words of   *)
(* the lines so far, in their order, and the flag to join is set after an  *)
(* odd number of words that end in a hyphen.                               *)
(*                                                                         *)
(* Chunks.  After every paragraph the runes in the chunks so far and in    *)
(* the one being built are those of the paragraphs so far, in the order of *)
(* the document, but for the tails that are said again; a chunk without    *)
(* news is such a tail alone.                                              *)
(***************************************************************************)
EXTENDS CronForm, Chunking, Presentation, SequenceTheorems, FiniteSetTheorems,
        WellFoundedInduction, TLAPS

(***************************************************************************)
(* Cron expressions.                                                       *)
(***************************************************************************)

ClockTimes == [hour : Int, minute : Int]

ScheduleForms ==
  [type : FormTypes \cup {NoWord}, time : ClockTimes,
   dow : {Empty, Star, Other} \cup Weekdays,
   dom : {Empty, Star, Other} \cup MonthDays]

CronExprs == [minute : Int, hour : Int, dom : Int, month : Int, dow : Int]

LEMMA OrdinalsAgree == \A n \in MonthDays : JsOrdinal(n) = Ordinal(n)
PROOF
<1> TAKE n \in MonthDays
<1>1. n % 100 = n /\ n \in 1 .. 31
  BY DEF MonthDays
<1>0. \A i \in Int : JsSuffix(i) =
        IF i = 1 THEN "st" ELSE IF i = 2 THEN "nd" ELSE IF i = 3 THEN "rd" ELSE NoWord
  BY DEF NoWord, JsSuffix
<1>2. JsOrdinal(n) =
        IF n \in {1, 21, 31} THEN "st" ELSE IF n \in {2, 22} THEN "nd"
        ELSE IF n \in {3, 23} THEN "rd" ELSE "th"
  <2>1. CASE n \in {10, 20, 30}
    <3>1. n % 10 = 0
      BY <2>1
    <3> QED  BY <1>0, <1>1, <2>1, <3>1 DEF NoWord, JsOrdinal
  <2>2. CASE n \in 1 .. 19 \ {10}
    <3>1. n % 10 # 0 /\ ~ (n >= 20)
      BY <2>2
    <3> QED  BY <1>0, <1>1, <2>2, <3>1 DEF NoWord, JsOrdinal
  <2>3. CASE n \in 21 .. 31 \ {30}
    <3>1. n % 10 # 0 /\ n >= 20
      BY <2>3
    <3>2. (n - 20) % 10 = IF n = 31 THEN 1 ELSE n - 20
      BY <2>3
    <3>3. n # 1 /\ n # 2 /\ n # 3
      BY <2>3
    <3> QED  BY <1>0, <1>1, <2>3, <3>1, <3>2, <3>3 DEF NoWord, JsOrdinal
  <2> QED  BY <1>1, <2>1, <2>2, <2>3
<1>3. Ordinal(n) =
        IF n \in {1, 21, 31} THEN "st" ELSE IF n \in {2, 22} THEN "nd"
        ELSE IF n \in {3, 23} THEN "rd" ELSE "th"
  BY <1>1 DEF Ordinal
<1> QED  BY <1>2, <1>3

LEMMA SavedForm ==
  ASSUME NEW form \in ScheduleForms, Saved(form) # NoCron
  PROVE  /\ form.type \in FormTypes /\ ParseClock(form.time)
         /\ Saved(form) =
              [minute |-> form.time.minute, hour |-> form.time.hour, month |-> Star,
               dom |-> IF form.type # "monthly" THEN Star
                       ELSE IF form.dom \in MonthDays THEN form.dom ELSE 1,
               dow |-> IF form.type # "weekly" THEN Star
                       ELSE IF form.dow \in Weekdays THEN form.dow ELSE 1]
PROOF
<1> DEFINE sent == Submitted(form)
<1>1. /\ sent.type = form.type
      /\ sent.time = IF ParseClock(form.time) THEN form.time ELSE NoTime
      /\ sent.dow = IF form.dow \in Weekdays THEN form.dow ELSE Empty
      /\ sent.dom = IF form.dom \in MonthDays THEN form.dom ELSE Empty
  BY DEF Submitted, ScheduleForms
<1>2. Saved(form) = BuildCronExpr(sent.type, sent.time, sent.dow, sent.dom)
  BY DEF Saved
<1> HIDE DEF sent
<1>3. form.type \in FormTypes /\ ParseClock(sent.time)
  BY <1>1, <1>2 DEF BuildCronExpr
<1>4. ~ ParseClock(NoTime)
  BY DEF ParseClock, NoTime, Empty
<1>5. ParseClock(form.time) /\ sent.time = form.time
  BY <1>1, <1>3, <1>4
<1>6. /\ (IF sent.dom = Empty THEN 1 ELSE sent.dom)
           = IF form.dom \in MonthDays THEN form.dom ELSE 1
      /\ (IF sent.dow = Empty THEN 1 ELSE sent.dow)
           = IF form.dow \in Weekdays THEN form.dow ELSE 1
  BY <1>1 DEF MonthDays, Weekdays, Empty
<1> QED  BY <1>1, <1>2, <1>3, <1>5, <1>6 DEF BuildCronExpr

\* What an edit that changes nothing saves of an expression.
LEMMA SavedAgain ==
  ASSUME NEW type \in FormTypes, NEW cron \in CronExprs
  PROVE  Saved(EditForm(type, cron)) =
           IF ~ ParseClock(CronParts(cron).time) THEN NoCron
           ELSE [minute |-> cron.minute, hour |-> cron.hour, month |-> Star,
                 dom |-> IF type # "monthly" THEN Star
                         ELSE IF cron.dom \in MonthDays THEN cron.dom ELSE 1,
                 dow |-> IF type # "weekly" THEN Star
                         ELSE IF cron.dow \in Weekdays THEN cron.dow ELSE 1]
PROOF
<1> DEFINE sent == Submitted(EditForm(type, cron))
           time == CronParts(cron).time
<1>1. /\ sent.type = type
      /\ sent.time = IF ParseClock(time) THEN time ELSE NoTime
      /\ sent.dow = IF cron.dow \in Weekdays THEN cron.dow ELSE Empty
      /\ sent.dom = IF cron.dom \in MonthDays THEN cron.dom ELSE Empty
  BY DEF Submitted, EditForm, CronParts
<1>2. Saved(EditForm(type, cron)) = BuildCronExpr(sent.type, sent.time, sent.dow, sent.dom)
  BY DEF Saved
<1>3. time.minute = cron.minute /\ time.hour = cron.hour
  BY DEF CronParts
<1> HIDE DEF sent, time
<1>4. ~ ParseClock(NoTime)
  BY DEF ParseClock, NoTime, Empty
<1>5. /\ (IF sent.dom = Empty THEN 1 ELSE sent.dom)
           = IF cron.dom \in MonthDays THEN cron.dom ELSE 1
      /\ (IF sent.dow = Empty THEN 1 ELSE sent.dow)
           = IF cron.dow \in Weekdays THEN cron.dow ELSE 1
  BY <1>1 DEF MonthDays, Weekdays, Empty
<1>6. CASE ~ ParseClock(time)
  <2>1. sent.time = NoTime
    BY <1>1, <1>6
  <2>2. BuildCronExpr(sent.type, sent.time, sent.dow, sent.dom) = NoCron
    BY <1>4, <2>1 DEF BuildCronExpr
  <2> QED  BY <1>2, <1>6, <2>2 DEF time
<1>7. CASE ParseClock(time)
  <2>1. sent.time = time /\ sent.type = type
    BY <1>1, <1>7
  <2> QED  BY <1>2, <1>3, <1>5, <1>7, <2>1 DEF BuildCronExpr, time
<1> QED  BY <1>6, <1>7

\* Whatever the schedule form holds, what is saved from it passes the service's
\* validation, survives an edit that changes nothing, and is what the preview showed and
\* the list will show, unless a day was never chosen (the schedule form's script,
\* mapper.go, schedules.go).
THEOREM FormsAgree == \A form \in ScheduleForms : FormAgrees(form)
PROOF
<1> SUFFICES ASSUME NEW form \in ScheduleForms, Saved(form) # NoCron
             PROVE  LET cron == Saved(form) IN
                    /\ ValidateScheduleType(form.type) /\ ValidateCronExpr(cron)
                    /\ FormShaped(form.type, cron)
                    /\ Saved(EditForm(form.type, cron)) = cron
                    /\ DayUnchosen(form) \/ (/\ PreviewCron(form) = cron
                                             /\ PreviewText(form) = DescribeCron(cron))
  BY DEF FormAgrees
<1> DEFINE day  == IF form.dom \in MonthDays THEN form.dom ELSE 1
           week == IF form.dow \in Weekdays THEN form.dow ELSE 1
<1>1. PICK cron : cron = Saved(form)
  OBVIOUS
<1>2. /\ form.type \in FormTypes /\ ParseClock(form.time)
      /\ cron = [minute |-> form.time.minute, hour |-> form.time.hour, month |-> Star,
                 dom |-> IF form.type # "monthly" THEN Star ELSE day,
                 dow |-> IF form.type # "weekly" THEN Star ELSE week]
  BY <1>1, SavedForm
<1>3. day \in MonthDays /\ week \in Weekdays
  BY DEF MonthDays, Weekdays
<1>4. /\ cron.minute = form.time.minute /\ cron.hour = form.time.hour /\ cron.month = Star
      /\ cron.dom = IF form.type # "monthly" THEN Star ELSE day
      /\ cron.dow = IF form.type # "weekly" THEN Star ELSE week
  BY <1>2
<1>5. form.time.minute \in 0 .. 59 /\ form.time.hour \in 0 .. 23
  BY <1>2 DEF ParseClock
<1>6. cron \in CronExprs
  BY <1>2, <1>3, <1>5 DEF CronExprs, Star, MonthDays, Weekdays
<1>7. ParseClock(CronParts(cron).time)
  BY <1>4, <1>5 DEF CronParts, ParseClock
<1> HIDE DEF day, week
<1>8. ValidateScheduleType(form.type) /\ ValidateCronExpr(cron)
  BY <1>2, <1>3, <1>4, <1>5 DEF ValidateScheduleType, ValidateCronExpr, InField
<1>9. FormShaped(form.type, cron)
  BY <1>2, <1>3, <1>4, <1>7 DEF FormShaped
<1>10. Saved(EditForm(form.type, cron)) = cron
  BY <1>2, <1>3, <1>4, <1>6, <1>7, SavedAgain
<1>11. ASSUME ~ DayUnchosen(form)
       PROVE  PreviewCron(form) = cron /\ PreviewText(form) = DescribeCron(cron)
  <2>1. form.time # NoTime /\ PreviewTime(form) = form.time
    BY <1>2 DEF PreviewTime, NoTime, ParseClock, Empty
  <2>2. form.type = "monthly" => day = IF form.dom = Empty THEN 1 ELSE form.dom
    BY <1>11 DEF DayUnchosen, ScheduleForms, day, MonthDays, Empty
  <2>3. form.type = "weekly" => week = IF form.dow = Empty THEN 1 ELSE form.dow
    BY <1>11 DEF DayUnchosen, ScheduleForms, week, Weekdays, Empty
  <2>4. PreviewCron(form) = cron
    BY <1>2, <2>1, <2>2, <2>3 DEF PreviewCron
  <2>5. CronTime(cron) = form.time
    <3>1. form.time \in ClockTimes
      BY DEF ScheduleForms
    <3> QED  BY <1>4, <1>5, <3>1 DEF CronTime, Star, ClockTimes
  <2>6. cron.hour # Star /\ cron.minute # Star
    BY <1>4, <1>5 DEF Star
  <2>7. CASE form.type = "daily"
    <3>1. PreviewText(form) = Text("every day", Empty, NoWord, form.time)
      BY <2>1, <2>7 DEF PreviewText
    <3>2. cron.dom = Star /\ cron.month = Star /\ cron.dow = Star
      BY <1>4, <2>7
    <3>3. DescribeCron(cron) = Text("every day", Empty, NoWord, form.time)
      BY <2>5, <2>6, <3>2 DEF DescribeCron
    <3> QED  BY <2>4, <3>1, <3>3
  <2>8. CASE form.type = "weekly"
    <3>1. DayLabel(form.dow) = week
      BY DEF DayLabel, week
    <3>2. PreviewText(form) = Text("every", week, NoWord, form.time)
      BY <2>1, <2>8, <3>1 DEF PreviewText
    <3>3. cron.dom = Star /\ cron.month = Star /\ cron.dow = week /\ week # Star
      BY <1>3, <1>4, <2>8 DEF Star, Weekdays
    <3>4. WeekdayName(week) = week /\ week # Empty
      BY <1>3 DEF WeekdayName, Weekdays, Empty
    <3>5. DescribeCron(cron) = Text("every", week, NoWord, form.time)
      BY <2>5, <2>6, <3>3, <3>4 DEF DescribeCron
    <3> QED  BY <2>4, <3>2, <3>5
  <2>9. CASE form.type = "monthly"
    <3>1. (IF form.dom = Empty THEN 1 ELSE form.dom) = day /\ ~ (day < 0)
      BY <1>3, <2>2, <2>9 DEF MonthDays
    <3>2. PreviewText(form) = Text("monthly", day, JsOrdinal(day), form.time)
      BY <2>1, <2>9, <3>1 DEF PreviewText
    <3>3. cron.dom = day /\ cron.month = Star /\ cron.dow = Star /\ day # Star
      BY <1>3, <1>4, <2>9 DEF Star, MonthDays
    <3>4. DescribeCron(cron) = Text("monthly", day, Ordinal(day), form.time)
      BY <1>3, <2>5, <2>6, <3>3 DEF DescribeCron
    <3>5. JsOrdinal(day) = Ordinal(day)
      BY <1>3, OrdinalsAgree
    <3> QED  BY <2>4, <3>2, <3>4, <3>5
  <2> QED  BY <1>2, <2>7, <2>8, <2>9 DEF FormTypes
<1> QED  BY <1>1, <1>8, <1>9, <1>10, <1>11

\* Whatever expression was saved through the API, an edit of it that changes nothing
\* keeps, refuses or silently narrows it exactly as CronAgrees says, and so does the
\* list's description of it leave out nothing else.
THEOREM CronsAgree ==
  \A type \in FormTypes, cron \in CronExprs : CronAgrees(type, cron)
PROOF
<1> SUFFICES ASSUME NEW type \in FormTypes, NEW cron \in CronExprs, ValidateCronExpr(cron)
             PROVE  LET text == DescribeCron(cron)
                        saved == Saved(EditForm(type, cron))
                    IN /\ saved = cron <=> FormShaped(type, cron)
                       /\ saved = NoCron <=> ~ ParseClock(CronParts(cron).time)
                       /\ text.phrase \in {"every day", "every", "monthly"}
                          /\ ParseClock(text.time) =>
                            cron = [minute |-> text.time.minute, hour |-> text.time.hour,
                                    month |-> Star,
                                    dow |-> IF text.phrase = "every" THEN text.day ELSE Star,
                                    dom |-> IF text.phrase # "monthly" THEN Star
                                            ELSE IF text.day = Empty THEN Other
                                            ELSE text.day]
  BY DEF CronAgrees
<1> DEFINE day  == IF cron.dom \in MonthDays THEN cron.dom ELSE 1
           week == IF cron.dow \in Weekdays THEN cron.dow ELSE 1
<1>1. PICK saved : saved = Saved(EditForm(type, cron))
  OBVIOUS
<1>2. saved = IF ~ ParseClock(CronParts(cron).time) THEN NoCron
              ELSE [minute |-> cron.minute, hour |-> cron.hour, month |-> Star,
                    dom |-> IF type # "monthly" THEN Star ELSE day,
                    dow |-> IF type # "weekly" THEN Star ELSE week]
  BY <1>1, SavedAgain
<1>3. /\ cron.minute \in {Star, Other} \cup 0 .. 59 /\ cron.hour \in {Star, Other} \cup 0 .. 23
      /\ cron.dom \in {Star, Other} \cup MonthDays /\ cron.dow \in {Star, Other} \cup Weekdays
      /\ cron.month \in {Star, Other} \cup 1 .. 12
  BY DEF ValidateCronExpr, InField
<1>4. cron = [minute |-> cron.minute, hour |-> cron.hour, dom |-> cron.dom,
              month |-> cron.month, dow |-> cron.dow]
  BY DEF CronExprs
<1>5. saved = NoCron <=> ~ ParseClock(CronParts(cron).time)
  BY <1>2 DEF NoCron, ParseClock, CronParts, Empty
<1>6. saved = cron <=> FormShaped(type, cron)
  <2>1. CASE ~ ParseClock(CronParts(cron).time)
    <3>1. cron # NoCron
      BY <1>3 DEF NoCron, Empty, Star, Other
    <3> QED  BY <1>2, <2>1, <3>1 DEF FormShaped
  <2>2. CASE ParseClock(CronParts(cron).time)
    <3>1. saved = cron <=>
            /\ cron.month = Star
            /\ cron.dom = IF type # "monthly" THEN Star ELSE day
            /\ cron.dow = IF type # "weekly" THEN Star ELSE week
      BY <1>2, <1>4, <2>2
    <3>2. cron.dom = day <=> cron.dom \in MonthDays
      BY DEF MonthDays
    <3>3. cron.dow = week <=> cron.dow \in Weekdays
      BY DEF Weekdays
    <3> QED  BY <2>2, <3>1, <3>2, <3>3 DEF FormShaped
  <2> QED  BY <2>1, <2>2
<1> HIDE DEF day, week
<1>7. PICK text : text = DescribeCron(cron)
  OBVIOUS
<1>8. ASSUME text.phrase \in {"every day", "every", "monthly"}, ParseClock(text.time)
      PROVE  cron = [minute |-> text.time.minute, hour |-> text.time.hour, month |-> Star,
                     dow |-> IF text.phrase = "every" THEN text.day ELSE Star,
                     dom |-> IF text.phrase # "monthly" THEN Star
                             ELSE IF text.day = Empty THEN Other ELSE text.day]
  <2> DEFINE everyDay   == cron.dom = Star /\ cron.month = Star /\ cron.dow = Star
             weekly  == /\ cron.dom = Star /\ cron.month = Star /\ cron.dow # Star
                        /\ WeekdayName(cron.dow) # Empty
             monthly == cron.dom # Star /\ cron.month = Star /\ cron.dow = Star
  <2>1. ~ ParseClock(NoTime)
    BY DEF ParseClock, NoTime, Empty
  <2>2. CronTime(cron) # NoTime => CronTime(cron) = [hour |-> cron.hour, minute |-> cron.minute]
    BY DEF CronTime
  <2>3. CASE everyDay
    <3>1. text = Text("every minute", Empty, NoWord, NoTime)
          \/ text = Text("every day", Empty, NoWord, CronTime(cron))
      BY <1>7, <2>3 DEF DescribeCron
    <3>2. Text("every minute", Empty, NoWord, NoTime).time = NoTime
      BY DEF Text
    <3>3. text = Text("every day", Empty, NoWord, CronTime(cron))
      BY <1>8, <2>1, <3>1, <3>2
    <3>4. /\ Text("every day", Empty, NoWord, CronTime(cron)).phrase = "every day"
          /\ Text("every day", Empty, NoWord, CronTime(cron)).time = CronTime(cron)
      BY DEF Text
    <3>5. text.phrase = "every day" /\ text.time = CronTime(cron)
      BY <3>3, <3>4
    <3>6. text.time = [hour |-> cron.hour, minute |-> cron.minute]
      BY <1>8, <2>1, <2>2, <3>5
    <3>7. text.time.minute = cron.minute /\ text.time.hour = cron.hour
      BY <3>6
    <3> QED  BY <1>4, <2>3, <3>5, <3>7
  <2>4. CASE weekly
    <3>1. text = Text("every", WeekdayName(cron.dow), NoWord, CronTime(cron))
      BY <1>7, <2>4 DEF DescribeCron
    <3>2. text.phrase = "every" /\ text.time = CronTime(cron) /\ text.day = WeekdayName(cron.dow)
      BY <3>1 DEF Text
    <3>3. WeekdayName(cron.dow) = cron.dow
      BY <1>3, <2>4 DEF WeekdayName, Weekdays, Star, Other
    <3> QED  BY <1>4, <1>8, <2>1, <2>2, <2>4, <3>2, <3>3
  <2>5. CASE monthly
    <3>1. text = IF cron.dom \in MonthDays
                 THEN Text("monthly", cron.dom, Ordinal(cron.dom), CronTime(cron))
                 ELSE Text("monthly", Empty, NoWord, CronTime(cron))
      BY <1>7, <2>5 DEF DescribeCron
    <3>2. /\ text.phrase = "monthly" /\ text.time = CronTime(cron)
          /\ text.day = IF cron.dom \in MonthDays THEN cron.dom ELSE Empty
      BY <3>1 DEF Text
    <3>3. cron.dom = IF text.day = Empty THEN Other ELSE text.day
      BY <1>3, <2>5, <3>2 DEF MonthDays, Empty, Star, Other
    <3> QED  BY <1>4, <1>8, <2>1, <2>2, <2>5, <3>2, <3>3
  <2>6. CASE ~ everyDay /\ ~ weekly /\ ~ monthly
    <3>1. text = Text("custom", Empty, NoWord, CronTime(cron))
      BY <1>7, <2>6 DEF DescribeCron
    <3> QED  BY <1>8, <3>1 DEF Text
  <2> QED  BY <2>3, <2>4, <2>5, <2>6
<1> QED  BY <1>1, <1>5, <1>6, <1>7, <1>8

(***************************************************************************)
(* What the pages say.                                                     *)
(***************************************************************************)

MillionDollars == 1000000 * 100 * Cent

\* Budgets that the form can show.  Within half a cent of a million dollars one is
\* rounded up to what NUMERIC(12,6) has no place for; the last cent is left out.
Budgets == {b \in Nat : b <= MillionDollars - Cent}

LEMMA CostsAreAmounts ==
  ASSUME NEW model, NEW input \in Nat, NEW output \in Nat
  PROVE  ComputeCost(model, input, output) \in Nat
PROOF
<1>1. ASSUME NEW m \in DOMAIN ModelPricing
      PROVE  ModelPricing[m].input \in Nat /\ ModelPricing[m].output \in Nat
  BY DEF ModelPricing
<1>2. CASE model \in DOMAIN ModelPricing
  <2>1. PICK a, b : a = ModelPricing[model].input /\ b = ModelPricing[model].output
    OBVIOUS
  <2>2. a \in Nat /\ b \in Nat
    BY <1>1, <1>2, <2>1
  <2>3. input * a + output * b \in Nat
    BY <2>2
  <2> QED  BY <1>2, <2>1, <2>3 DEF ComputeCost
<1>3. CASE model \notin DOMAIN ModelPricing
  BY <1>3 DEF ComputeCost
<1> QED  BY <1>2, <1>3

\* The percentage of a budget against a threshold.
LEMMA Thresholds ==
  ASSUME NEW budget \in Nat \cup {NotANumber}, NEW mtd \in Nat, NEW p \in 1 .. 100
  PROVE  /\ AtLeast(Percent(mtd, budget), p) <=> budget > 0 /\ 100 * mtd >= p * budget
         /\ Above(Percent(mtd, budget), p) <=> budget > 0 /\ 100 * mtd > p * budget
PROOF
<1>1. Percent(mtd, budget).mtd = IF budget > 0 THEN mtd ELSE 0
  BY DEF Percent
<1>2. Percent(mtd, budget).of = IF budget > 0 THEN budget ELSE 1
  BY DEF Percent
<1>3. budget \in Int
  BY DEF NotANumber
<1>4. p \in Int /\ p > 0
  OBVIOUS
<1>5. CASE budget > 0
  BY <1>1, <1>2, <1>5 DEF AtLeast, Above
<1>6. CASE ~ (budget > 0)
  BY <1>1, <1>2, <1>3, <1>4, <1>6 DEF AtLeast, Above
<1> QED  BY <1>5, <1>6

\* For any budget, spending, model and estimate, the dashboard's banner, its colours and
\* its bar agree with what the checker would refuse and warn of, but at the borders that
\* BudgetAgrees names (budget/checker.go, webui/mapper.go).
THEOREM BudgetsAgree ==
  \A model : \A budget \in Nat \cup {NotANumber}, mtd \in Nat, input, output \in Nat :
    BudgetAgrees(budget, mtd, model, input, output)
PROOF
<1> TAKE model
<1> TAKE budget \in Nat \cup {NotANumber}, mtd \in Nat, input, output \in Nat
<1>1. PICK cost \in Nat : cost = ComputeCost(model, input, output)
  BY CostsAreAmounts
<1>2. PICK pct : pct = Percent(mtd, budget)
  OBVIOUS
<1>3. /\ AtLeast(pct, 95) <=> budget > 0 /\ 100 * mtd >= 95 * budget
      /\ Above(pct, 95) <=> budget > 0 /\ 100 * mtd > 95 * budget
      /\ AtLeast(pct, 80) <=> budget > 0 /\ 100 * mtd >= 80 * budget
      /\ AtLeast(pct, 100) <=> budget > 0 /\ 100 * mtd >= 100 * budget
  <2>1. \A p \in 1 .. 100 :
          /\ AtLeast(pct, p) <=> budget > 0 /\ 100 * mtd >= p * budget
          /\ Above(pct, p) <=> budget > 0 /\ 100 * mtd > p * budget
    BY <1>2, Thresholds
  <2>2. {80, 95, 100} \subseteq 1 .. 100
    OBVIOUS
  <2> QED  BY <2>1, <2>2
<1>4. PICK status : status = GetBudgetStatus(budget, mtd)
  OBVIOUS
<1>5. /\ status.PercentUsed = pct /\ status.IsExceeded = (budget > 0 /\ mtd >= budget)
      /\ status.RemainingBudget = IF budget > mtd THEN budget - mtd ELSE 0
  BY <1>2, <1>4 DEF GetBudgetStatus
<1>6. PICK data : data = MapDashboard(status)
  OBVIOUS
<1>7. status # NoStatus
  <2>1. budget \in Int /\ status.RemainingBudget \in Nat
    BY <1>5 DEF NotANumber
  <2>2. pct \in [mtd : Nat, of : Nat]
    BY <1>2 DEF Percent
  <2>3. status \in BudgetStatuses
    BY <1>2, <1>4, <2>1, <2>2 DEF GetBudgetStatus, BudgetStatuses
  <2> QED  BY <2>3, ViewsAssumption
<1>8. /\ data.BudgetPercent = pct /\ data.BudgetExceeded = (budget > 0 /\ mtd >= budget)
      /\ data.BudgetIntent = BudgetIntent(pct)
  BY <1>5, <1>6, <1>7 DEF MapDashboard
<1>9. PICK check : check = CheckBudget(budget, mtd, cost)
  OBVIOUS
<1>10. check.Allowed <=> (budget > 0 => mtd + cost <= budget)
  BY <1>9 DEF CheckBudget
<1>11. check.ThresholdReached =
         IF ~ check.Allowed THEN 0
         ELSE IF AtLeast(pct, 95) THEN 95 ELSE IF AtLeast(pct, 80) THEN 80 ELSE 0
  BY <1>2, <1>9, <1>10 DEF CheckBudget
<1>12. data.BudgetIntent =
         IF Above(pct, 95) THEN "error" ELSE IF AtLeast(pct, 80) THEN "warning" ELSE "success"
  BY <1>8 DEF BudgetIntent
<1>13. PICK banner : banner = BudgetBanner(data)
  OBVIOUS
<1>14. banner = IF budget > 0 /\ mtd >= budget THEN "exceeded"
                ELSE IF AtLeast(pct, 80) THEN "approaching" ELSE "none"
  BY <1>8, <1>13 DEF BudgetBanner
<1>15. BarFull(data) <=> AtLeast(pct, 100)
  BY <1>8 DEF BarFull
<1>16. BudgetBanner(MapDashboard(NoStatus)) = "none"
  <2>1. PICK p : p = Percent(0, 0)
    OBVIOUS
  <2>2. ~ AtLeast(p, 80)
    BY <2>1, Thresholds
  <2>3. MapDashboard(NoStatus).BudgetPercent = p /\ ~ MapDashboard(NoStatus).BudgetExceeded
    BY <2>1 DEF MapDashboard
  <2> QED  BY <2>2, <2>3 DEF BudgetBanner
<1>17. banner = "exceeded" => (check.Allowed <=> cost = 0 /\ mtd = budget)
  BY <1>10, <1>14
<1>18. ~ check.Allowed => banner = "exceeded" \/ cost > status.RemainingBudget
  BY <1>5, <1>10, <1>14
<1>19. check.Allowed => (check.ThresholdReached = 0 <=> banner = "none")
  BY <1>3, <1>11, <1>14
<1>20. banner = "none" <=> data.BudgetIntent = "success"
  BY <1>3, <1>12, <1>14
<1>21. check.Allowed /\ data.BudgetIntent = "error" => check.ThresholdReached = 95
  BY <1>3, <1>11, <1>12
<1>22. check.ThresholdReached = 95 /\ data.BudgetIntent # "error" => 20 * mtd = 19 * budget
  BY <1>3, <1>11, <1>12
<1>23. BarFull(data) <=> banner = "exceeded"
  BY <1>3, <1>14, <1>15
<1>24. ~ (budget > 0) => check.Allowed /\ banner = "none"
  BY <1>3, <1>10, <1>14
<1> QED
  BY <1>1, <1>4, <1>6, <1>9, <1>13, <1>16, <1>17, <1>18, <1>19, <1>20, <1>21, <1>22,
     <1>23, <1>24 DEF BudgetAgrees

LEMMA Between ==
  ASSUME NEW x \in Int, NEW low \in Int, NEW high \in Int, low <= x, x <= high
  PROVE  x \in low .. high
OBVIOUS

\* Whatever budget there is, the form that shows it sends it back unchanged but for
\* fractions of a cent (the settings page, webui/mapper.go).
THEOREM BudgetFieldsAgree ==
  \A budget \in Budgets \cup {Huge, Unparsed, Negative, NotANumber} : BudgetFormAgrees(budget)
PROOF
<1> TAKE budget \in Budgets \cup {Huge, Unparsed, Negative, NotANumber}
<1>1. PICK saved : saved = BudgetSubmit(BudgetField(budget))
  OBVIOUS
<1>2. CASE budget = NotANumber
  <2>1. saved = Refused
    BY <1>1, <1>2 DEF BudgetField, BudgetSubmit
  <2> QED  BY <1>1, <1>2, <2>1, SMTT(20)
           DEF BudgetFormAgrees, BudgetSubmit, Refused, NotANumber, Huge, Unparsed, Negative, Cent
<1>3. CASE budget # NotANumber
  <2>1. budget \in Int /\ budget >= -4
    BY DEF Budgets, Huge, Unparsed, Negative, NotANumber
  <2>2. PICK half \in Int : half = Cent \div 2 /\ half = 50000
    BY SMTT(20) DEF Cent
  <2>3. PICK cents \in Int : cents = (budget + Cent \div 2) \div Cent
    BY <2>1, SMTT(20) DEF Cent
  <2>4. budget \in Int /\ budget >= -4
    BY <2>1
  <2>5. cents * 100000 <= budget + 50000 /\ budget + 50000 < cents * 100000 + 100000
    BY <2>3, <2>4, SMTT(20) DEF Cent
  <2>6. cents >= 0
    BY <2>4, <2>5, SMTT(20)
  <2>7. saved = cents * 100000
    <3>1. BudgetField(budget) = cents * 100000
      BY <1>3, <2>3, SMTT(20) DEF BudgetField, FormatUSD, Cent
    <3>2. cents * 100000 \notin {Negative, Unparsed, Huge}
      BY <2>6, SMTT(20) DEF Negative, Unparsed, Huge
    <3> QED  BY <1>1, <3>1, <3>2, SMTT(20) DEF BudgetSubmit
  <2>8. saved = budget <=> budget >= 0 /\ budget % 100000 = 0
    <3>1. PICK q \in Int, r \in Int :
            budget = 100000 * q + r /\ r >= 0 /\ r < 100000 /\ r = budget % 100000
      <4>1. PICK q, r : q = budget \div 100000 /\ r = budget % 100000
        OBVIOUS
      <4>2. q \in Int /\ r \in Int /\ r >= 0 /\ r < 100000 /\ budget = 100000 * q + r
        BY <2>4, <4>1, SMTT(20)
      <4> QED  BY <4>1, <4>2, SMTT(20)
    <3>2. saved = budget => r = 0
      BY <2>7, <3>1, SMTT(20)
    <3>3. saved = budget => budget >= 0
      BY <2>6, <2>7, SMTT(20)
    <3>4. r = 0 => saved = budget
      BY <2>4, <2>5, <2>7, <3>1, SMTT(20)
    <3> QED  BY <3>1, <3>2, <3>3, <3>4, SMTT(20)
  <2>9. saved # Refused /\ saved \in Int
    BY <2>6, <2>7, SMTT(20) DEF Refused
  <2>10. budget > 0 /\ saved = 0 <=> 1 <= budget /\ budget <= half - 1
    BY <2>2, <2>4, <2>5, <2>7, SMTT(20)
  <2>11. budget >= 0 => saved - budget \in -half .. half
    <3>1. saved - budget >= -50000 /\ saved - budget <= 50000 /\ saved - budget \in Int
      BY <2>4, <2>5, <2>7, <2>9, SMTT(20)
    <3>2. -half <= saved - budget /\ saved - budget <= half /\ -half \in Int
      BY <2>2, <3>1, SMTT(20)
    <3> QED  BY <2>2, <3>1, <3>2, Between
  <2>12. BudgetSubmit(budget) = Refused <=> budget \in {Negative, Unparsed, Huge}
    BY <2>4 DEF BudgetSubmit, Refused
  <2>13. saved = budget <=> budget >= 0 /\ budget % Cent = 0
    BY <2>8, SMTT(20) DEF Cent
  <2>14. budget > 0 /\ saved = 0 <=> budget \in 1 .. half - 1
    <3>1. PICK least \in Nat : least = half - 1
      BY <2>2, SMTT(20)
    <3> QED  BY <2>4, <2>10, <3>1
  <2> QED  BY <1>1, <1>3, <2>2, <2>9, <2>11, <2>12, <2>13, <2>14 DEF BudgetFormAgrees
<1> QED  BY <1>2, <1>3

\* Every status a badge may have is painted as it is meant, but for the badges that
\* BadgesAgree names (the badge templates).
THEOREM BadgesPainted ==
  \A kind \in DOMAIN BadgeKinds : \A value \in BadgeKinds[kind] : BadgesAgree(kind, value)
PROOF
<1>1. \A intent \in {"success", "warning", "error"} :
        /\ BudgetPercentClass(intent) = intent /\ ProgressBarClass(intent) = intent
        /\ DashboardBudget(intent) = "plain"
  BY DEF BudgetPercentClass, ProgressBarClass, DashboardBudget, FirstClass, Painted
<1>2. ASSUME NEW value \in {"active", "error", "inactive"} PROVE BadgesAgree("source", value)
  <2>1. Badge("source", value).intent = SourceIntent(value)
        /\ Badge("source", value).paint = "plain"
    BY DEF Badge, StatusBadge, FirstClass
  <2>2. SourceIntent(value) # "plain"
    BY DEF SourceIntent
  <2> QED  BY <1>1, <2>1, <2>2 DEF BadgesAgree
<1>3. ASSUME NEW value \in {"draft", "issued", "paid", "overdue"}
      PROVE  BadgesAgree("invoice", value)
  <2>1. /\ Badge("invoice", value).intent = InvoiceStatusIntent(value)
        /\ Badge("invoice", value).paint = InvoiceStatusClass(InvoiceStatusIntent(value))
    BY DEF Badge
  <2>2. InvoiceStatusClass(InvoiceStatusIntent(value)) = InvoiceStatusIntent(value)
    BY DEF InvoiceStatusIntent, InvoiceStatusClass, Painted
  <2> QED  BY <1>1, <2>1, <2>2 DEF BadgesAgree
<1>4. ASSUME NEW value \in {"active", "suspended", "deleted"}
      PROVE  BadgesAgree("tenant", value)
  <2>1. /\ Badge("tenant", value).intent = IntentForTenantStatus(value)
        /\ Badge("tenant", value).paint = StatusBadgeClass(IntentForTenantStatus(value))
    BY DEF Badge
  <2>2. StatusBadgeClass(IntentForTenantStatus(value)) = IntentForTenantStatus(value)
    BY DEF IntentForTenantStatus, StatusBadgeClass, Painted
  <2> QED  BY <1>1, <2>1, <2>2 DEF BadgesAgree
<1>5. ASSUME NEW value \in {"daily", "weekly", "monthly", "on_demand"}
      PROVE  BadgesAgree("report", value)
  <2>1. /\ Badge("report", value).intent = ReportTypeIntent(value)
        /\ Badge("report", value).paint = ReportTypeClass(ReportTypeIntent(value))
    BY DEF Badge
  <2>2. ReportTypeClass(ReportTypeIntent(value)) = ReportTypeIntent(value)
    BY DEF ReportTypeIntent, ReportTypeClass, Painted
  <2> QED  BY <1>1, <2>1, <2>2 DEF BadgesAgree
<1>6. ASSUME NEW value \in {"llm", "tool", "embedding"} PROVE BadgesAgree("event", value)
  <2>1. /\ Badge("event", value).intent = EventTypeIntent(value)
        /\ Badge("event", value).paint = ReportTypeClass(EventTypeIntent(value))
    BY DEF Badge
  <2>2. ReportTypeClass(EventTypeIntent(value)) = EventTypeIntent(value)
          <=> value # "embedding"
    BY DEF EventTypeIntent, ReportTypeClass, Painted
  <2> QED  BY <1>1, <2>1, <2>2 DEF BadgesAgree
<1>7. ASSUME NEW value PROVE BadgesAgree("job", value)
  <2>1. /\ Badge("job", value).intent = JobIntent(value)
        /\ Badge("job", value).paint = StatusClass(JobIntent(value))
    BY DEF Badge
  <2>2. StatusClass(JobIntent(value)) = JobIntent(value)
    BY DEF JobIntent, StatusClass, Painted
  <2> QED  BY <1>1, <2>1, <2>2 DEF BadgesAgree
<1>8. ASSUME NEW kind \in DOMAIN BadgeKinds, NEW value \in BadgeKinds[kind]
      PROVE  BadgesAgree(kind, value)
  <2>1. kind \in {"source", "invoice", "tenant", "report", "event", "job"}
    BY DEF BadgeKinds
  <2>2. /\ BadgeKinds["source"] = {"active", "error", "inactive"}
        /\ BadgeKinds["invoice"] = {"draft", "issued", "paid", "overdue"}
        /\ BadgeKinds["tenant"] = {"active", "suspended", "deleted"}
        /\ BadgeKinds["report"] = {"daily", "weekly", "monthly", "on_demand"}
        /\ BadgeKinds["event"] = {"llm", "tool", "embedding"}
    BY DEF BadgeKinds
  <2> QED  BY <1>2, <1>3, <1>4, <1>5, <1>6, <1>7, <2>1, <2>2
<1> QED  BY <1>8

\* Whatever was recorded of a generation job and whatever the queue still knows of it,
\* the activity shows one status, and an error text only below a failed job
\* (webui/mapper.go's generation activity).
THEOREM ActivitiesAgree ==
  \A status : \A error, here \in BOOLEAN, live \in TaskInfos \cup {NoStatus} :
    ActivityAgrees([status |-> status, error |-> error], live, here)
PROOF
<1> TAKE status
<1> TAKE error, here \in BOOLEAN, live \in TaskInfos \cup {NoStatus}
<1> DEFINE job == [status |-> status, error |-> error]
<1>1. PICK item : item = MapGenerationActivity(job, live)
  OBVIOUS
<1>2. /\ live = NoStatus => /\ item.status = job.status
                            /\ item.error <=> job.status = "failed" /\ job.error
      /\ live # NoStatus => /\ item.status = MapTaskState(live.state)
                            /\ item.error <=> item.status = "failed" /\ live.lastErr
  BY <1>1 DEF MapGenerationActivity, GenerationStatusMeta
<1>3. PICK line : line = ActivityLine(item, here)
  OBVIOUS
<1>4. /\ line = "error" <=> item.error
      /\ line = "focus" => here
  BY <1>3 DEF ActivityLine
<1>5. line = "error" <=> /\ item.status = "failed"
                         /\ IF live = NoStatus THEN job.error ELSE live.lastErr
  BY <1>2, <1>4
<1>6. live # NoStatus /\ item.status = "queued" =>
        live.state \in {"pending", "scheduled", "retry", "aggregating"}
  BY <1>2 DEF MapTaskState
<1>7. job.status # item.status => live # NoStatus
  BY <1>2
<1>8. Badge("job", item.status).paint = "error" <=> item.status = "failed"
  <2>1. Badge("job", item.status).paint = StatusClass(JobIntent(item.status))
    BY DEF Badge
  <2>2. StatusClass(JobIntent(item.status)) = "error" <=> item.status = "failed"
    BY DEF StatusClass, JobIntent, Painted
  <2> QED  BY <2>1, <2>2
<1> QED  BY <1>1, <1>3, <1>4, <1>5, <1>6, <1>7, <1>8 DEF ActivityAgrees

LEMMA TokensRounded ==
  ASSUME NEW n \in Nat, NEW shown, shown = FormatTokens(n)
  PROVE  /\ shown.tenths \in Nat /\ shown.unit \in {1, 1000, 1000000}
         /\ 20 * n - 2 * shown.tenths * shown.unit \in -shown.unit .. shown.unit
         /\ shown.tenths >= 10000 /\ shown.unit < 1000000 <=> 999950 <= n /\ n <= 999999
PROOF
<1>1. CASE n >= 1000000
  <2>1. PICK t : t = (10 * n + 500000) \div 1000000
    OBVIOUS
  <2>2. t \in Int /\ 1000000 * t <= 10 * n + 500000 /\ 10 * n + 500000 < 1000000 * t + 1000000
    BY <2>1, SMTT(20)
  <2>3. 1000000 \div 2 = 500000
    BY SMTT(20)
  <2>4. shown = [tenths |-> t, unit |-> 1000000]
    BY <1>1, <2>1, <2>3, SMTT(20) DEF FormatTokens
  <2>5. PICK low \in Int, high \in Int : low = -1000000 /\ high = 1000000
    BY SMTT(20)
  <2>6. PICK off : off = 20 * n - 2 * t * 1000000
    OBVIOUS
  <2>7. off \in Int /\ low <= off /\ off <= high
    BY <2>2, <2>5, <2>6, SMTT(20)
  <2>8. off \in low .. high
    BY <2>7, Between
  <2>9. t >= 0 /\ ~ (n <= 999999)
    BY <1>1, <2>2, SMTT(20)
  <2>10. shown.tenths = t /\ shown.unit = 1000000
    BY <2>4
  <2>11. 20 * n - 2 * shown.tenths * shown.unit \in -shown.unit .. shown.unit
    <3>1. 20 * n - 2 * shown.tenths * shown.unit = off
      BY <2>6, <2>10, SMTT(20)
    <3>2. -shown.unit = low /\ shown.unit = high
      BY <2>5, <2>10, SMTT(20)
    <3> QED  BY <2>8, <3>1, <3>2
  <2>12. shown.tenths \in Nat /\ shown.unit \in {1, 1000, 1000000}
    BY <2>2, <2>9, <2>10, SMTT(20)
  <2>13. ~ (shown.unit < 1000000)
    BY <2>10, SMTT(20)
  <2> QED  BY <2>9, <2>11, <2>12, <2>13, SMTT(20)
<1>2. CASE n >= 1000 /\ n < 1000000
  <2>1. PICK t : t = (10 * n + 500) \div 1000
    OBVIOUS
  <2>2. t \in Int /\ 1000 * t <= 10 * n + 500 /\ 10 * n + 500 < 1000 * t + 1000
    BY <2>1, SMTT(20)
  <2>3. 1000 \div 2 = 500
    BY SMTT(20)
  <2>4. shown = [tenths |-> t, unit |-> 1000]
    BY <1>2, <2>1, <2>3, SMTT(20) DEF FormatTokens
  <2>5. PICK low \in Int, high \in Int : low = -1000 /\ high = 1000
    BY SMTT(20)
  <2>6. PICK off : off = 20 * n - 2 * t * 1000
    OBVIOUS
  <2>7. off \in Int /\ low <= off /\ off <= high
    BY <2>2, <2>5, <2>6, SMTT(20)
  <2>8. off \in low .. high
    BY <2>7, Between
  <2>9. t >= 0 /\ (t >= 10000 <=> n >= 999950) /\ n <= 999999
    BY <1>2, <2>2, SMTT(20)
  <2>10. shown.tenths = t /\ shown.unit = 1000
    BY <2>4
  <2> QED  BY <2>2, <2>5, <2>6, <2>8, <2>9, <2>10, SMTT(20)
<1>3. CASE n < 1000
  <2>1. shown.tenths = 10 * n /\ shown.unit = 1
    BY <1>3, SMTT(20) DEF FormatTokens
  <2>2. 20 * n - 2 * (10 * n) * 1 = 0 /\ 0 \in -1 .. 1
    BY SMTT(20)
  <2> QED  BY <1>3, <2>1, <2>2, SMTT(20)
<1> QED  BY <1>1, <1>2, <1>3, SMTT(20)

LEMMA WholeUnits ==
  ASSUME NEW seconds \in Int, seconds >= 60, NEW ago, ago = FormatTimeAgo(seconds)
  PROVE  ago.count >= 1 /\ ago.count * ago.unit <= seconds
         /\ seconds < (ago.count + 1) * ago.unit
PROOF
<1>1. CASE seconds < 3600
  <2>1. PICK q : q = seconds \div 60
    OBVIOUS
  <2>2. q \in Int /\ 60 * q <= seconds /\ seconds < 60 * q + 60
    BY <2>1, SMTT(20)
  <2>3. ago = [count |-> q, unit |-> 60]
    BY <1>1, <2>1, SMTT(20) DEF FormatTimeAgo
  <2>4. ago.count = q /\ ago.unit = 60
    BY <2>3
  <2> QED  BY <2>2, <2>4, SMTT(20)
<1>2. CASE seconds >= 3600 /\ seconds < 86400
  <2>1. PICK q : q = seconds \div 3600
    OBVIOUS
  <2>2. q \in Int /\ 3600 * q <= seconds /\ seconds < 3600 * q + 3600
    BY <2>1, SMTT(20)
  <2>3. ago = [count |-> q, unit |-> 3600]
    BY <1>2, <2>1, SMTT(20) DEF FormatTimeAgo
  <2>4. ago.count = q /\ ago.unit = 3600
    BY <2>3
  <2> QED  BY <1>2, <2>2, <2>4, SMTT(20)
<1>3. CASE seconds >= 86400
  <2>1. PICK q : q = seconds \div 86400
    OBVIOUS
  <2>2. q \in Int /\ 86400 * q <= seconds /\ seconds < 86400 * q + 86400
    BY <2>1, SMTT(20)
  <2>3. ago = [count |-> q, unit |-> 86400]
    BY <1>3, <2>1, SMTT(20) DEF FormatTimeAgo
  <2>4. ago.count = q /\ ago.unit = 86400
    BY <2>3
  <2> QED  BY <1>3, <2>2, <2>4, SMTT(20)
<1> QED  BY <1>1, <1>2, <1>3, SMTT(20)

\* Any number of tokens is shown to half a tenth of its unit, any time ago in whole units,
\* and the number of active sources is right unless one is beyond those read.
THEOREM RoundedNumbersAgree ==
  \A many \in Nat, seconds \in Int, active \in SUBSET Nat :
    IsFiniteSet(active) => NumbersAgree(many, seconds, active)
PROOF
<1> SUFFICES ASSUME NEW many \in Nat, NEW seconds \in Int,
                    NEW active \in SUBSET Nat, IsFiniteSet(active)
             PROVE  NumbersAgree(many, seconds, active)
  OBVIOUS
<1>1. PICK shown : shown = FormatTokens(many)
  OBVIOUS
<1>2. PICK ago : ago = FormatTimeAgo(seconds)
  OBVIOUS
<1>3. /\ 20 * many - 2 * shown.tenths * shown.unit \in -shown.unit .. shown.unit
      /\ shown.tenths >= 10000 /\ shown.unit < 1000000
           <=> 999950 <= many /\ many <= 999999
  BY <1>1, TokensRounded, SMTT(20)
<1>4. PICK low \in Int, high \in Int : low = 999950 /\ high = 999999
  BY SMTT(20)
<1>5. low <= many /\ many <= high <=> many \in low .. high
  OBVIOUS
<1>6. shown.tenths >= 10000 /\ shown.unit < 1000000 <=> many \in 999950 .. 999999
  BY <1>3, <1>4, <1>5, SMTT(20)
<1>7. seconds >= 60 => ago.count >= 1 /\ ago.count * ago.unit <= seconds
                       /\ seconds < (ago.count + 1) * ago.unit
  BY <1>2, WholeUnits
<1>8. CountActiveSources(active) = Cardinality(active)
        <=> \A s \in active : s <= DashboardSources
  <2> DEFINE read == {s \in active : s <= DashboardSources}
  <2>1. read \subseteq active
    OBVIOUS
  <2> HIDE DEF read
  <2>2. Cardinality(read) = Cardinality(active) <=> read = active
    BY <2>1, FS_Subset
  <2>3. CountActiveSources(active) = Cardinality(read)
    BY DEF CountActiveSources, read
  <2>4. read = active <=> \A s \in active : s <= DashboardSources
    BY DEF read
  <2> QED  BY <2>2, <2>3, <2>4
<1> QED
  BY <1>1, <1>2, <1>3, <1>6, <1>7, <1>8, SMTT(20) DEF NumbersAgree

(***************************************************************************)
(* Folds.                                                                  *)
(***************************************************************************)

\* Induction: a set of natural numbers has a least element.
LEMMA LeastNumber ==
  ASSUME NEW B, B \subseteq Nat, B # {}
  PROVE  \E m \in B : \A n \in B : m <= n
PROOF
<1>1. PICK m \in B : \A n \in B : ~ (<<n, m>> \in OpToRel(<, Nat))
  BY NatLessThanWellFounded, WFMin
<1>2. \A n \in B : m <= n
  <2> SUFFICES ASSUME NEW n \in B PROVE m <= n
    OBVIOUS
  <2>1. m \in Nat /\ n \in Nat
    OBVIOUS
  <2>2. ~ (n < m)
    BY <1>1, <2>1 DEF OpToRel
  <2> QED  BY <2>1, <2>2
<1> QED  BY <1>2

\* Induction: what holds of 0 and passes from one number to the next up to N.
Climbs(G, N) == 0 \in G /\ \A k \in 1 .. N : k - 1 \in G => k \in G

LEMMA UpTo ==
  ASSUME NEW N \in Nat, NEW G, Climbs(G, N)
  PROVE  \A k \in 0 .. N : k \in G
PROOF
<1> USE DEF Climbs
<1> DEFINE B == {k \in 0 .. N : k \notin G}
<1>1. SUFFICES ASSUME B # {} PROVE FALSE
  OBVIOUS
<1>2. PICK m \in B : \A n \in B : m <= n
  <2>1. B \subseteq Nat
    OBVIOUS
  <2> HIDE DEF B
  <2> QED  BY <1>1, <2>1, LeastNumber
<1>3. m \in 1 .. N /\ m \notin G
  OBVIOUS
<1>4. m - 1 \in 0 .. N /\ ~ (m <= m - 1)
  BY <1>3
<1>5. m - 1 \in G
  BY <1>2, <1>4
<1> QED  BY <1>3, <1>5

\* The largest of some numbers up to N.
LEMMA MaxIn ==
  ASSUME NEW N \in Nat, NEW s, s \subseteq 1 .. N, s # {}
  PROVE  Max(s) \in s /\ \A y \in s : y <= Max(s)
PROOF
<1> DEFINE B == {N - x : x \in s}
<1>1. B \subseteq Nat
  OBVIOUS
<1>2. PICK m \in B : \A n \in B : m <= n
  <2>1. PICK x \in s : TRUE
    OBVIOUS
  <2>2. N - x \in B
    OBVIOUS
  <2> HIDE DEF B
  <2> QED  BY <1>1, <2>2, LeastNumber
<1>3. PICK x \in s : m = N - x
  OBVIOUS
<1>4. \A y \in s : x >= y
  <2> SUFFICES ASSUME NEW y \in s PROVE x >= y
    OBVIOUS
  <2>1. N - y \in B
    OBVIOUS
  <2>2. m <= N - y
    BY <1>2, <2>1
  <2>3. x \in Nat /\ y \in Nat
    OBVIOUS
  <2> QED  BY <1>3, <2>2, <2>3
<1> HIDE DEF B
<1>5. Max(s) \in s /\ \A y \in s : Max(s) >= y
  BY <1>4 DEF Max
<1>6. \A y \in s : y \in Int
  OBVIOUS
<1> QED  BY <1>5, <1>6

LEMMA MaxUpTo ==
  ASSUME NEW k \in Nat \ {0}
  PROVE  Max(1 .. k) = k
PROOF
<1>1. Max(1 .. k) \in 1 .. k /\ \A y \in 1 .. k : y <= Max(1 .. k)
  <2>1. 1 .. k # {}
    OBVIOUS
  <2> QED  BY <2>1, MaxIn
<1>2. k <= Max(1 .. k)
  BY <1>1
<1> QED  BY <1>1, <1>2

\* A fold of a function over the numbers up to N, as the recursive function on the
\* sets of these numbers that FoldLeft is defined by.
IsIter(it, step, base, N) ==
  it = [s \in SUBSET (1 .. N) |->
          IF s = {} THEN base ELSE step[it[s \ {Max(s)}]][Max(s)]]

LEMMA IterExists ==
  ASSUME NEW N \in Nat, NEW T, NEW base \in T, NEW step \in [T -> [1 .. N -> T]]
  PROVE  \E it \in [SUBSET (1 .. N) -> T] : IsIter(it, step, base, N)
PROOF
<1> DEFINE Good(it, n) ==
             /\ it \in [SUBSET (1 .. n) -> T]
             /\ it[{}] = base
             /\ \A s \in SUBSET (1 .. n) :
                  s # {} => it[s] = step[it[s \ {Max(s)}]][Max(s)]
           G == {n \in 0 .. N : \E it : Good(it, n)}
<1>1. 0 \in G
  <2> DEFINE it == [s \in SUBSET (1 .. 0) |-> base]
  <2>1. SUBSET (1 .. 0) = {{}}
    OBVIOUS
  <2>2. it \in [SUBSET (1 .. 0) -> T] /\ it[{}] = base
    BY <2>1
  <2>3. \A s \in SUBSET (1 .. 0) : s = {}
    BY <2>1
  <2> HIDE DEF it
  <2>4. Good(it, 0)
    BY <2>2, <2>3
  <2> HIDE DEF Good
  <2> QED  BY <2>4
<1>2. ASSUME NEW n \in 1 .. N, n - 1 \in G PROVE n \in G
  <2>1. PICK g : Good(g, n - 1)
    BY <1>2
  <2> DEFINE f == [s \in SUBSET (1 .. n) |->
                     IF n \in s THEN step[g[s \ {n}]][n] ELSE g[s]]
  <2>2. \A s \in SUBSET (1 .. n) : n \notin s => s \in SUBSET (1 .. n - 1)
    OBVIOUS
  <2>3. \A s \in SUBSET (1 .. n) : s \ {n} \in SUBSET (1 .. n - 1)
    OBVIOUS
  <2>4. \A s \in SUBSET (1 .. n - 1) : g[s] \in T
    BY <2>1
  <2>5. \A t \in T : step[t][n] \in T
    OBVIOUS
  <2>6. f \in [SUBSET (1 .. n) -> T]
    <3>1. \A s \in SUBSET (1 .. n) : f[s] \in T
      <4> SUFFICES ASSUME NEW s \in SUBSET (1 .. n) PROVE f[s] \in T
        OBVIOUS
      <4>1. CASE n \in s
        <5>1. f[s] = step[g[s \ {n}]][n]
          BY <4>1
        <5>2. g[s \ {n}] \in T
          BY <2>3, <2>4
        <5> HIDE DEF f
        <5> QED  BY <2>5, <5>1, <5>2
      <4>2. CASE n \notin s
        <5>1. f[s] = g[s]
          BY <4>2
        <5> HIDE DEF f
        <5> QED  BY <2>2, <2>4, <4>2, <5>1
      <4> QED  BY <4>1, <4>2
    <3>2. f = [s \in SUBSET (1 .. n) |-> f[s]]
      OBVIOUS
    <3> HIDE DEF f
    <3> QED  BY <3>1, <3>2
  <2>7. f[{}] = base
    <3>1. f[{}] = g[{}]
      OBVIOUS
    <3> HIDE DEF f
    <3> QED  BY <2>1, <3>1
  <2>8. \A s \in SUBSET (1 .. n) : s # {} => f[s] = step[f[s \ {Max(s)}]][Max(s)]
    <3> SUFFICES ASSUME NEW s \in SUBSET (1 .. n), s # {}
                 PROVE  f[s] = step[f[s \ {Max(s)}]][Max(s)]
      OBVIOUS
    <3>1. Max(s) \in s /\ \A y \in s : y <= Max(s)
      <4>1. n \in Nat /\ s \subseteq 1 .. n
        OBVIOUS
      <4> QED  BY <4>1, MaxIn
    <3>2. s \ {Max(s)} \in SUBSET (1 .. n)
      OBVIOUS
    <3>3. CASE n \in s
      <4>1. Max(s) = n
        <5>1. Max(s) \in 1 .. n /\ n <= Max(s)
          BY <3>1, <3>3
        <5> QED  BY <5>1
      <4>2. f[s] = step[g[s \ {n}]][n]
        BY <3>3
      <4>3. f[s \ {n}] = g[s \ {n}]
        <5> DEFINE t == s \ {n}
        <5>1. t \in SUBSET (1 .. n) /\ n \notin t
          OBVIOUS
        <5> HIDE DEF t
        <5>2. f[t] = g[t]
          BY <5>1
        <5> QED  BY <5>2 DEF t
      <4> HIDE DEF f
      <4> QED  BY <4>1, <4>2, <4>3
    <3>4. CASE n \notin s
      <4>1. f[s] = g[s]
        BY <3>4
      <4>2. f[s \ {Max(s)}] = g[s \ {Max(s)}]
        <5> DEFINE t == s \ {Max(s)}
        <5>1. t \in SUBSET (1 .. n) /\ n \notin t
          BY <3>4
        <5> HIDE DEF t
        <5>2. f[t] = g[t]
          BY <5>1
        <5> QED  BY <5>2 DEF t
      <4>3. g[s] = step[g[s \ {Max(s)}]][Max(s)]
        BY <2>1, <2>2, <3>4
      <4> HIDE DEF f
      <4> QED  BY <4>1, <4>2, <4>3
    <3> QED  BY <3>3, <3>4
  <2> HIDE DEF f
  <2>9. Good(f, n)
    BY <2>6, <2>7, <2>8
  <2>10. n \in 0 .. N
    OBVIOUS
  <2> HIDE DEF Good
  <2> QED  BY <2>9, <2>10
<1>3. N \in G
  <2> HIDE DEF G
  <2>1. Climbs(G, N)
    BY <1>1, <1>2 DEF Climbs
  <2>2. N \in 0 .. N
    OBVIOUS
  <2> QED  BY <2>1, <2>2, UpTo
<1>4. PICK it : Good(it, N)
  BY <1>3
<1>5. IsIter(it, step, base, N)
  <2> DEFINE f == [s \in SUBSET (1 .. N) |->
                     IF s = {} THEN base ELSE step[it[s \ {Max(s)}]][Max(s)]]
  <2>1. \A s \in SUBSET (1 .. N) : it[s] = f[s]
    BY <1>4
  <2>2. it = [s \in SUBSET (1 .. N) |-> it[s]]
    BY <1>4
  <2>3. f = [s \in SUBSET (1 .. N) |-> f[s]]
    OBVIOUS
  <2>4. it = f
    <3> HIDE DEF f
    <3> QED  BY <2>1, <2>2, <2>3
  <2> QED  BY <2>4 DEF IsIter
<1> QED  BY <1>4, <1>5

\* 1 .. k without its largest number.
LEMMA Shorter ==
  ASSUME NEW N \in Nat, NEW k \in 1 .. N
  PROVE  /\ 1 .. k \in SUBSET (1 .. N) /\ 1 .. k # {}
         /\ Max(1 .. k) = k /\ (1 .. k) \ {Max(1 .. k)} = 1 .. k - 1
PROOF
<1>1. k \in Nat \ {0}
  OBVIOUS
<1>2. Max(1 .. k) = k
  BY <1>1, MaxUpTo
<1>3. (1 .. k) \ {k} = 1 .. k - 1
  OBVIOUS
<1> QED  BY <1>2, <1>3

\* BytesOf.
RuneBytes(doc, r) == IF r # Gap /\ doc[r[1]].wide THEN 2 ELSE 1

IsBytes(it, doc, text) ==
  it = [s \in SUBSET DOMAIN text |->
          IF s = {} THEN 0 ELSE it[s \ {Max(s)}] + RuneBytes(doc, text[Max(s)])]

LEMMA BytesFold ==
  ASSUME NEW doc, NEW text
  PROVE  BytesOf(doc, text) = (CHOOSE it : IsBytes(it, doc, text))[DOMAIN text]
BY DEF BytesOf, FoldLeft, MapThenFoldSet, IsBytes, RuneBytes

LEMMA BytesSteps ==
  ASSUME NEW doc, NEW S, NEW text \in Seq(S)
  PROVE  \E h : /\ h[0] = 0 /\ h[Len(text)] = BytesOf(doc, text)
                /\ \A k \in 1 .. Len(text) : h[k] = h[k - 1] + RuneBytes(doc, text[k])
PROOF
<1> DEFINE N == Len(text)
<1>1. N \in Nat /\ DOMAIN text = 1 .. N
  BY LenProperties
<1> HIDE DEF N
<1> DEFINE step == [t \in Nat |-> [k \in 1 .. N |-> t + RuneBytes(doc, text[k])]]
<1>2. step \in [Nat -> [1 .. N -> Nat]]
  BY DEF RuneBytes
<1>3. PICK it \in [SUBSET (1 .. N) -> Nat] : IsIter(it, step, 0, N)
  <2> HIDE DEF step
  <2> QED  BY <1>1, <1>2, IterExists
<1>4. IsBytes(it, doc, text)
  <2>1. \A s \in SUBSET (1 .. N) : s # {} =>
          step[it[s \ {Max(s)}]][Max(s)] = it[s \ {Max(s)}] + RuneBytes(doc, text[Max(s)])
    <3> SUFFICES ASSUME NEW s \in SUBSET (1 .. N), s # {}
                 PROVE  step[it[s \ {Max(s)}]][Max(s)]
                          = it[s \ {Max(s)}] + RuneBytes(doc, text[Max(s)])
      OBVIOUS
    <3>1. Max(s) \in 1 .. N
      BY <1>1, MaxIn
    <3>2. it[s \ {Max(s)}] \in Nat
      OBVIOUS
    <3> QED  BY <3>1, <3>2
  <2> HIDE DEF step
  <2> QED  BY <1>1, <1>3, <2>1 DEF IsIter, IsBytes
<1>5. PICK g : g = (CHOOSE i : IsBytes(i, doc, text))
  OBVIOUS
<1>6. IsBytes(g, doc, text)
  BY <1>4, <1>5
<1> DEFINE h == [k \in 0 .. N |-> g[1 .. k]]
<1>7. h[0] = 0
  <2>1. h[0] = g[{}]
    BY <1>1
  <2>2. g[{}] = 0
    BY <1>6 DEF IsBytes
  <2> QED  BY <2>1, <2>2
<1>8. h[N] = BytesOf(doc, text)
  <2>1. h[N] = g[1 .. N]
    BY <1>1
  <2>2. BytesOf(doc, text) = g[DOMAIN text]
    BY <1>5, BytesFold
  <2> QED  BY <1>1, <2>1, <2>2
<1>9. \A k \in 1 .. N : h[k] = h[k - 1] + RuneBytes(doc, text[k])
  <2> SUFFICES ASSUME NEW k \in 1 .. N PROVE h[k] = h[k - 1] + RuneBytes(doc, text[k])
    OBVIOUS
  <2>1. h[k] = g[1 .. k] /\ h[k - 1] = g[1 .. k - 1]
    BY <1>1
  <2>2. /\ 1 .. k \in SUBSET (1 .. N) /\ 1 .. k # {}
        /\ Max(1 .. k) = k /\ (1 .. k) \ {Max(1 .. k)} = 1 .. k - 1
    BY <1>1, Shorter
  <2>3. g[1 .. k] = g[(1 .. k) \ {Max(1 .. k)}] + RuneBytes(doc, text[Max(1 .. k)])
    BY <1>1, <1>6, <2>2 DEF IsBytes
  <2> HIDE DEF h
  <2> QED  BY <2>1, <2>2, <2>3
<1> HIDE DEF h
<1> QED  BY <1>7, <1>8, <1>9 DEF N

LEMMA BytesBound ==
  ASSUME NEW doc, NEW S, NEW text \in Seq(S)
  PROVE  BytesOf(doc, text) \in Nat /\ Len(text) <= BytesOf(doc, text)
PROOF
<1>1. PICK h : /\ h[0] = 0 /\ h[Len(text)] = BytesOf(doc, text)
               /\ \A k \in 1 .. Len(text) : h[k] = h[k - 1] + RuneBytes(doc, text[k])
  BY BytesSteps
<1> DEFINE N == Len(text)
           G == {k \in 0 .. N : h[k] \in Nat /\ k <= h[k]}
<1>2. N \in Nat
  BY LenProperties
<1>3. ASSUME NEW k \in 1 .. N, k - 1 \in G PROVE k \in G
  <2>1. h[k - 1] \in Nat /\ k - 1 <= h[k - 1]
    BY <1>3
  <2>2. PICK b \in {1, 2} : b = RuneBytes(doc, text[k])
    BY DEF RuneBytes
  <2>3. h[k] = h[k - 1] + b
    BY <1>1, <2>2
  <2> QED  BY <1>2, <2>1, <2>3
<1>4. 0 \in G
  BY <1>1, <1>2
<1>5. N \in G
  <2> HIDE DEF G, N
  <2>1. Climbs(G, N)
    BY <1>3, <1>4 DEF Climbs
  <2>2. N \in 0 .. N
    BY <1>2
  <2> QED  BY <1>2, <2>1, <2>2, UpTo
<1> QED  BY <1>1, <1>5

\* NotSeen.
KeepNew(kept, t) == IF Contains(kept, t) THEN kept ELSE Append(kept, t)

IsKept(it, chunks) ==
  it = [s \in SUBSET DOMAIN chunks |->
          IF s = {} THEN <<>> ELSE KeepNew(it[s \ {Max(s)}], chunks[Max(s)])]

LEMMA KeptFold ==
  ASSUME NEW chunks
  PROVE  NotSeen(chunks) = (CHOOSE it : IsKept(it, chunks))[DOMAIN chunks]
BY DEF NotSeen, FoldLeft, MapThenFoldSet, IsKept, KeepNew

LEMMA KeepTyped ==
  ASSUME NEW S, NEW kept \in Seq(S), NEW t \in S
  PROVE  KeepNew(kept, t) \in Seq(S) /\ InText(KeepNew(kept, t)) = InText(kept) \cup {t}
PROOF
<1>1. DOMAIN kept = 1 .. Len(kept) /\ Len(kept) \in Nat
  BY LenProperties
<1>2. CASE Contains(kept, t)
  <2>1. t \in InText(kept) /\ KeepNew(kept, t) = kept
    BY <1>1, <1>2 DEF Contains, InText, KeepNew
  <2> QED  BY <2>1
<1>3. CASE ~ Contains(kept, t)
  <2>1. KeepNew(kept, t) = Append(kept, t)
    BY <1>3 DEF KeepNew
  <2> DEFINE a == Append(kept, t)
  <2>2. /\ a \in Seq(S) /\ Len(a) = Len(kept) + 1
        /\ \A i \in 1 .. Len(kept) : a[i] = kept[i]
        /\ a[Len(kept) + 1] = t
    BY AppendProperties
  <2> HIDE DEF a
  <2>3. DOMAIN a = 1 .. Len(kept) + 1
    BY <2>2, LenProperties
  <2>4. InText(a) = InText(kept) \cup {t}
    BY <1>1, <2>2, <2>3 DEF InText
  <2> QED  BY <2>1, <2>2, <2>4 DEF a
<1> QED  BY <1>2, <1>3

LEMMA KeepInjective ==
  ASSUME NEW S, NEW kept \in Seq(S), NEW t \in S, IsInjective(kept)
  PROVE  IsInjective(KeepNew(kept, t))
PROOF
<1>1. DOMAIN kept = 1 .. Len(kept) /\ Len(kept) \in Nat
  BY LenProperties
<1>2. CASE Contains(kept, t)
  BY <1>2 DEF KeepNew
<1>3. CASE ~ Contains(kept, t)
  <2> DEFINE a == Append(kept, t)
  <2>1. KeepNew(kept, t) = a
    BY <1>3 DEF KeepNew
  <2>2. /\ a \in Seq(S) /\ Len(a) = Len(kept) + 1
        /\ \A i \in 1 .. Len(kept) : a[i] = kept[i]
        /\ a[Len(kept) + 1] = t
    BY AppendProperties
  <2> HIDE DEF a
  <2>3. DOMAIN a = 1 .. Len(kept) + 1
    BY <2>2, LenProperties
  <2>4. \A i \in DOMAIN a : i = Len(kept) + 1 \/ (i \in DOMAIN kept /\ a[i] # t)
    BY <1>1, <1>3, <2>2, <2>3 DEF Contains
  <2>5. \A i, j \in DOMAIN a : a[i] = a[j] => i = j
    BY <1>1, <2>2, <2>4 DEF IsInjective
  <2> QED  BY <2>1, <2>5 DEF IsInjective
<1> QED  BY <1>2, <1>3

LEMMA KeptSteps ==
  ASSUME NEW S, NEW chunks \in Seq(S)
  PROVE  \E h : /\ h[0] = <<>> /\ h[Len(chunks)] = NotSeen(chunks)
                /\ \A k \in 1 .. Len(chunks) : h[k] = KeepNew(h[k - 1], chunks[k])
PROOF
<1> DEFINE N == Len(chunks)
<1>1. N \in Nat /\ DOMAIN chunks = 1 .. N /\ \A k \in 1 .. N : chunks[k] \in S
  BY LenProperties
<1> HIDE DEF N
<1> DEFINE step == [t \in Seq(S) |-> [k \in 1 .. N |-> KeepNew(t, chunks[k])]]
<1>2. step \in [Seq(S) -> [1 .. N -> Seq(S)]]
  BY <1>1, KeepTyped
<1>3. PICK it \in [SUBSET (1 .. N) -> Seq(S)] : IsIter(it, step, <<>>, N)
  <2> HIDE DEF step
  <2>1. <<>> \in Seq(S)
    OBVIOUS
  <2> QED  BY <1>1, <1>2, <2>1, IterExists
<1>4. IsKept(it, chunks)
  <2>1. \A s \in SUBSET (1 .. N) : s # {} =>
          step[it[s \ {Max(s)}]][Max(s)] = KeepNew(it[s \ {Max(s)}], chunks[Max(s)])
    <3> SUFFICES ASSUME NEW s \in SUBSET (1 .. N), s # {}
                 PROVE  step[it[s \ {Max(s)}]][Max(s)]
                          = KeepNew(it[s \ {Max(s)}], chunks[Max(s)])
      OBVIOUS
    <3>1. Max(s) \in 1 .. N
      BY <1>1, MaxIn
    <3>2. it[s \ {Max(s)}] \in Seq(S)
      OBVIOUS
    <3> QED  BY <3>1, <3>2
  <2> HIDE DEF step
  <2> QED  BY <1>1, <1>3, <2>1 DEF IsIter, IsKept
<1>5. PICK g : g = (CHOOSE i : IsKept(i, chunks))
  OBVIOUS
<1>6. IsKept(g, chunks)
  BY <1>4, <1>5
<1> DEFINE h == [k \in 0 .. N |-> g[1 .. k]]
<1>7. h[0] = <<>>
  <2>1. h[0] = g[{}]
    BY <1>1
  <2>2. g[{}] = <<>>
    BY <1>6 DEF IsKept
  <2> QED  BY <2>1, <2>2
<1>8. h[N] = NotSeen(chunks)
  <2>1. h[N] = g[1 .. N]
    BY <1>1
  <2>2. NotSeen(chunks) = g[DOMAIN chunks]
    BY <1>5, KeptFold
  <2> QED  BY <1>1, <2>1, <2>2
<1>9. \A k \in 1 .. N : h[k] = KeepNew(h[k - 1], chunks[k])
  <2> SUFFICES ASSUME NEW k \in 1 .. N PROVE h[k] = KeepNew(h[k - 1], chunks[k])
    OBVIOUS
  <2>1. h[k] = g[1 .. k] /\ h[k - 1] = g[1 .. k - 1]
    BY <1>1
  <2>2. /\ 1 .. k \in SUBSET (1 .. N) /\ 1 .. k # {}
        /\ Max(1 .. k) = k /\ (1 .. k) \ {Max(1 .. k)} = 1 .. k - 1
    BY <1>1, Shorter
  <2>3. g[1 .. k] = KeepNew(g[(1 .. k) \ {Max(1 .. k)}], chunks[Max(1 .. k)])
    BY <1>1, <1>6, <2>2 DEF IsKept
  <2> HIDE DEF h
  <2> QED  BY <2>1, <2>2, <2>3
<1> HIDE DEF h
<1> QED  BY <1>7, <1>8, <1>9 DEF N

\* What one run stores is every text it was given, once.
LEMMA KeptTexts ==
  ASSUME NEW S, NEW chunks \in Seq(S)
  PROVE  InText(NotSeen(chunks)) = InText(chunks) /\ IsInjective(NotSeen(chunks))
PROOF
<1>1. PICK h : /\ h[0] = <<>> /\ h[Len(chunks)] = NotSeen(chunks)
               /\ \A k \in 1 .. Len(chunks) : h[k] = KeepNew(h[k - 1], chunks[k])
  BY KeptSteps
<1> DEFINE N == Len(chunks)
           G == {k \in 0 .. N : /\ h[k] \in Seq(S) /\ IsInjective(h[k])
                                /\ InText(h[k]) = {chunks[j] : j \in 1 .. k}}
<1>2. N \in Nat /\ DOMAIN chunks = 1 .. N /\ \A k \in 1 .. N : chunks[k] \in S
  BY LenProperties
<1>3. ASSUME NEW k \in 1 .. N, k - 1 \in G PROVE k \in G
  <2>1. /\ h[k - 1] \in Seq(S) /\ IsInjective(h[k - 1])
        /\ InText(h[k - 1]) = {chunks[j] : j \in 1 .. k - 1}
    BY <1>3
  <2>2. h[k] = KeepNew(h[k - 1], chunks[k])
    BY <1>1
  <2>3. /\ h[k] \in Seq(S) /\ IsInjective(h[k])
        /\ InText(h[k]) = InText(h[k - 1]) \cup {chunks[k]}
    <3>1. PICK kept, t : kept = h[k - 1] /\ t = chunks[k]
      OBVIOUS
    <3>2. kept \in Seq(S) /\ t \in S /\ IsInjective(kept)
      BY <1>2, <2>1, <3>1
    <3>3. /\ KeepNew(kept, t) \in Seq(S) /\ IsInjective(KeepNew(kept, t))
          /\ InText(KeepNew(kept, t)) = InText(kept) \cup {t}
      BY <3>2, KeepTyped, KeepInjective
    <3> QED  BY <2>2, <3>1, <3>3
  <2>4. {chunks[j] : j \in 1 .. k} = {chunks[j] : j \in 1 .. k - 1} \cup {chunks[k]}
    OBVIOUS
  <2> QED  BY <1>2, <2>1, <2>3, <2>4
<1>4. 0 \in G
  <2>1. <<>> \in Seq(S) /\ InText(<<>>) = {} /\ IsInjective(<<>>)
    BY DEF InText, IsInjective
  <2>2. {chunks[j] : j \in 1 .. 0} = {} /\ 0 \in 0 .. N
    BY <1>2
  <2>3. h[0] = <<>>
    BY <1>1
  <2> QED  BY <2>1, <2>2, <2>3
<1>5. N \in G
  <2> HIDE DEF G, N
  <2>1. Climbs(G, N)
    BY <1>3, <1>4 DEF Climbs
  <2>2. N \in 0 .. N
    BY <1>2
  <2> QED  BY <1>2, <2>1, <2>2, UpTo
<1> QED  BY <1>1, <1>2, <1>5 DEF InText

(***************************************************************************)
(* Tables.                                                                 *)
(***************************************************************************)

RowsTo(body, i) == {j \in 1 .. i : body[j] = "row"}

LEMMA RowsSame ==
  ASSUME NEW body, NEW i \in Nat, NEW last \in Nat, last < i, body[last] # "row"
  PROVE  /\ DocxRow(body, i) = DocxRow(body, last) <=> \A m \in last .. i : body[m] # "row"
         /\ DocxRow(body, last) # 0 <=> \E m \in 1 .. last : body[m] = "row"
PROOF
<1>1. IsFiniteSet(RowsTo(body, i)) /\ IsFiniteSet(RowsTo(body, last))
  <2>1. IsFiniteSet(1 .. i) /\ IsFiniteSet(1 .. last)
    BY FS_Interval
  <2>2. RowsTo(body, i) \subseteq 1 .. i /\ RowsTo(body, last) \subseteq 1 .. last
    BY DEF RowsTo
  <2> QED  BY <2>1, <2>2, FS_Subset
<1>2. RowsTo(body, last) \subseteq RowsTo(body, i)
  BY DEF RowsTo
<1>3. /\ DocxRow(body, i) = Cardinality(RowsTo(body, i))
      /\ DocxRow(body, last) = Cardinality(RowsTo(body, last))
  BY DEF DocxRow, RowsTo
<1>4. DocxRow(body, i) = DocxRow(body, last) <=> RowsTo(body, i) = RowsTo(body, last)
  BY <1>1, <1>2, <1>3, FS_Subset
<1>5. RowsTo(body, i) = RowsTo(body, last) <=> \A m \in last .. i : body[m] # "row"
  <2>1. ASSUME RowsTo(body, i) = RowsTo(body, last), NEW m \in last .. i PROVE body[m] # "row"
    BY <2>1 DEF RowsTo
  <2>2. ASSUME \A m \in last .. i : body[m] # "row", NEW j \in RowsTo(body, i)
        PROVE  j \in RowsTo(body, last)
    BY <2>2 DEF RowsTo
  <2> QED  BY <1>2, <2>1, <2>2
<1>6. DocxRow(body, last) # 0 <=> RowsTo(body, last) # {}
  BY <1>1, <1>3, FS_EmptySet
<1>7. RowsTo(body, last) # {} <=> \E m \in 1 .. last : body[m] = "row"
  BY DEF RowsTo
<1> QED  BY <1>4, <1>5, <1>6, <1>7

\* ParseDOCX writes a tab between two texts of a document exactly when no table row
\* begins between them and one began before: for every body of a document.
THEOREM TablesRead ==
  ASSUME NEW body \in Seq({"row", "cell", "body", "blank"})
  PROVE  TablesAgree(body)
PROOF
<1> SUFFICES ASSUME NEW i \in DOMAIN ParseDOCX(body)
             PROVE  LET last == LastDocxText(body, i) IN
                    ParseDOCX(body)[i] = "tab" <=>
                      /\ \A m \in last .. i : body[m] # "row"
                      /\ \E m \in 1 .. last : body[m] = "row"
  BY DEF TablesAgree
<1>1. i \in DOMAIN body /\ DocxTextsBefore(body, i) # {}
  BY DEF ParseDOCX
<1>2. i \in Nat \ {0}
  BY <1>1, LenProperties
<1> DEFINE last == LastDocxText(body, i)
<1>3. last \in DocxTextsBefore(body, i)
  <2>1. i - 1 \in Nat /\ DocxTextsBefore(body, i) \subseteq 1 .. i - 1
    BY <1>2 DEF DocxTextsBefore
  <2> QED  BY <1>1, <2>1, MaxIn DEF LastDocxText
<1>4. ParseDOCX(body)[i] = "tab" <=>
        DocxRow(body, i) # 0 /\ DocxRow(body, i) = DocxRow(body, last)
  BY DEF ParseDOCX
<1> HIDE DEF last
<1>5. last \in Nat /\ last < i /\ body[last] # "row"
  BY <1>2, <1>3 DEF DocxTextsBefore
<1>6. /\ DocxRow(body, i) = DocxRow(body, last) <=> \A m \in last .. i : body[m] # "row"
      /\ DocxRow(body, last) # 0 <=> \E m \in 1 .. last : body[m] = "row"
  BY <1>2, <1>5, RowsSame
<1> QED  BY <1>4, <1>6 DEF last

(***************************************************************************)
(* PDF pages.                                                              *)
(***************************************************************************)

PdfWord(N) == [line : 1 .. N, glued : BOOLEAN]

PdfState(N) == [paras : Seq(Seq(PdfWord(N))), para : Seq(PdfWord(N)), join : BOOLEAN]

NoWords == [paras |-> <<>>, para |-> <<>>, join |-> FALSE]

PdfLine == [blank : BOOLEAN, ends : BOOLEAN, hyphen : BOOLEAN]

Glue(st) == st.para # <<>> /\ st.join

WithWord(st, i) == Append(st.para, [line |-> i, glued |-> Glue(st)])

LEMMA AddLineValue ==
  ASSUME NEW lines, NEW st, NEW i, lines[i].blank \in BOOLEAN, lines[i].ends \in BOOLEAN
  PROVE  AddLine(lines, st, i) =
           IF lines[i].blank THEN st
           ELSE IF lines[i].ends
                THEN [paras |-> Append(st.paras, WithWord(st, i)), para |-> <<>>,
                      join |-> FALSE]
                ELSE [paras |-> st.paras, para |-> WithWord(st, i),
                      join |-> lines[i].hyphen /\ ~ Glue(st)]
BY DEF AddLine, Glue, WithWord

LEMMA AddLineTyped ==
  ASSUME NEW N \in Nat, NEW lines \in [1 .. N -> PdfLine], NEW st \in PdfState(N),
         NEW i \in 1 .. N
  PROVE  AddLine(lines, st, i) \in PdfState(N) /\ WithWord(st, i) \in Seq(PdfWord(N))
PROOF
<1>1. lines[i] \in PdfLine
  OBVIOUS
<1>2. lines[i].blank \in BOOLEAN /\ lines[i].ends \in BOOLEAN /\ lines[i].hyphen \in BOOLEAN
  BY <1>1 DEF PdfLine
<1>3. /\ st.paras \in Seq(Seq(PdfWord(N))) /\ st.para \in Seq(PdfWord(N))
      /\ st.join \in BOOLEAN
  BY DEF PdfState
<1>4. Glue(st) \in BOOLEAN
  BY <1>3 DEF Glue
<1>5. [line |-> i, glued |-> Glue(st)] \in PdfWord(N)
  BY <1>4 DEF PdfWord
<1>6. WithWord(st, i) \in Seq(PdfWord(N))
  BY <1>3, <1>5, AppendProperties DEF WithWord
<1>7. Append(st.paras, WithWord(st, i)) \in Seq(Seq(PdfWord(N)))
  BY <1>3, <1>6, AppendProperties
<1>8. <<>> \in Seq(PdfWord(N))
  OBVIOUS
<1>9. AddLine(lines, st, i) =
        IF lines[i].blank THEN st
        ELSE IF lines[i].ends
             THEN [paras |-> Append(st.paras, WithWord(st, i)), para |-> <<>>, join |-> FALSE]
             ELSE [paras |-> st.paras, para |-> WithWord(st, i),
                   join |-> lines[i].hyphen /\ ~ Glue(st)]
  BY <1>2, AddLineValue
<1>10. (lines[i].hyphen /\ ~ Glue(st)) \in BOOLEAN
  OBVIOUS
<1>11. [paras |-> Append(st.paras, WithWord(st, i)), para |-> <<>>, join |-> FALSE]
         \in PdfState(N)
  BY <1>7, <1>8 DEF PdfState
<1>12. [paras |-> st.paras, para |-> WithWord(st, i), join |-> lines[i].hyphen /\ ~ Glue(st)]
         \in PdfState(N)
  BY <1>3, <1>6, <1>10 DEF PdfState
<1> QED  BY <1>6, <1>9, <1>11, <1>12

IsPage(it, lines) ==
  it = [s \in SUBSET DOMAIN [i \in DOMAIN lines |-> i] |->
          IF s = {} THEN NoWords
          ELSE AddLine(lines, it[s \ {Max(s)}], [i \in DOMAIN lines |-> i][Max(s)])]

LinesRead(lines) ==
  (CHOOSE it : IsPage(it, lines))[DOMAIN [i \in DOMAIN lines |-> i]]

LEMMA PageFold ==
  ASSUME NEW lines
  PROVE  NormalizePDFText(lines) =
           IF LinesRead(lines).para = <<>> THEN LinesRead(lines).paras
           ELSE Append(LinesRead(lines).paras, LinesRead(lines).para)
BY DEF NormalizePDFText, FoldLeft, MapThenFoldSet, IsPage, LinesRead, NoWords

LEMMA PageSteps ==
  ASSUME NEW N \in Nat, NEW lines \in [1 .. N -> PdfLine]
  PROVE  \E h : /\ h[0] = NoWords /\ h[N] = LinesRead(lines)
                /\ \A k \in 1 .. N : h[k] = AddLine(lines, h[k - 1], k)
PROOF
<1> DEFINE T == PdfState(N)
           step == [t \in T |-> [k \in 1 .. N |-> AddLine(lines, t, k)]]
<1>1. DOMAIN lines = 1 .. N
  OBVIOUS
<1>2. step \in [T -> [1 .. N -> T]]
  BY AddLineTyped
<1>3. NoWords \in T
  BY DEF NoWords, PdfState
<1> HIDE DEF T
<1>4. PICK it \in [SUBSET (1 .. N) -> T] : IsIter(it, step, NoWords, N)
  <2> HIDE DEF step
  <2> QED  BY <1>2, <1>3, IterExists
<1>5. DOMAIN [i \in DOMAIN lines |-> i] = 1 .. N
      /\ \A k \in 1 .. N : [i \in DOMAIN lines |-> i][k] = k
  BY <1>1
<1>6. \A s \in SUBSET (1 .. N) : s # {} => Max(s) \in 1 .. N
  BY MaxIn
<1>7. IsPage(it, lines)
  <2>1. \A s \in SUBSET (1 .. N) : s # {} =>
          step[it[s \ {Max(s)}]][Max(s)]
            = AddLine(lines, it[s \ {Max(s)}], [i \in DOMAIN lines |-> i][Max(s)])
    <3> SUFFICES ASSUME NEW s \in SUBSET (1 .. N), s # {}
                 PROVE  step[it[s \ {Max(s)}]][Max(s)]
                   = AddLine(lines, it[s \ {Max(s)}], [i \in DOMAIN lines |-> i][Max(s)])
      OBVIOUS
    <3>1. Max(s) \in 1 .. N /\ [i \in DOMAIN lines |-> i][Max(s)] = Max(s)
      BY <1>5, <1>6
    <3>2. it[s \ {Max(s)}] \in T
      OBVIOUS
    <3> QED  BY <3>1, <3>2
  <2> HIDE DEF step
  <2> QED  BY <1>4, <1>5, <2>1 DEF IsIter, IsPage
<1>8. PICK g : g = (CHOOSE i : IsPage(i, lines))
  OBVIOUS
<1>9. IsPage(g, lines)
  BY <1>7, <1>8
<1> DEFINE h == [k \in 0 .. N |-> g[1 .. k]]
<1>10. h[0] = NoWords
  <2>1. h[0] = g[{}]
    OBVIOUS
  <2>2. g[{}] = NoWords
    BY <1>9 DEF IsPage
  <2> QED  BY <2>1, <2>2
<1>11. h[N] = LinesRead(lines)
  <2>1. h[N] = g[1 .. N]
    OBVIOUS
  <2>2. LinesRead(lines) = g[DOMAIN [i \in DOMAIN lines |-> i]]
    BY <1>8 DEF LinesRead
  <2> QED  BY <1>5, <2>1, <2>2
<1>12. \A k \in 1 .. N : h[k] = AddLine(lines, h[k - 1], k)
  <2> SUFFICES ASSUME NEW k \in 1 .. N PROVE h[k] = AddLine(lines, h[k - 1], k)
    OBVIOUS
  <2>1. h[k] = g[1 .. k] /\ h[k - 1] = g[1 .. k - 1]
    OBVIOUS
  <2>2. /\ 1 .. k \in SUBSET (1 .. N) /\ 1 .. k # {}
        /\ Max(1 .. k) = k /\ (1 .. k) \ {Max(1 .. k)} = 1 .. k - 1
    BY Shorter
  <2>3. g[1 .. k] = AddLine(lines, g[(1 .. k) \ {Max(1 .. k)}],
                            [i \in DOMAIN lines |-> i][Max(1 .. k)])
    BY <1>5, <1>9, <2>2 DEF IsPage
  <2> HIDE DEF h
  <2> QED  BY <1>5, <2>1, <2>2, <2>3
<1> HIDE DEF h
<1> QED  BY <1>10, <1>11, <1>12

\* The words before word k of a paragraph that end in a hyphen, back to one that
\* does not.
Run(lines, para, k, n) ==
  /\ n \in 0 .. k - 1
  /\ \A j \in k - n .. k - 1 : lines[para[j].line].hyphen
  /\ n = k - 1 \/ ~ lines[para[k - n - 1].line].hyphen

LEMMA RunNotLonger ==
  ASSUME NEW lines, NEW para, NEW k \in Nat, NEW n, NEW m,
         Run(lines, para, k, n), Run(lines, para, k, m)
  PROVE  ~ (n < m)
PROOF
<1> SUFFICES ASSUME n < m PROVE FALSE
  OBVIOUS
<1>1. n \in 0 .. k - 1 /\ m \in 0 .. k - 1
  BY DEF Run
<1>2. k - n - 1 \in k - m .. k - 1 /\ n # k - 1
  BY <1>1
<1>3. lines[para[k - n - 1].line].hyphen
  BY <1>2 DEF Run
<1>4. ~ lines[para[k - n - 1].line].hyphen
  BY <1>2 DEF Run
<1> QED  BY <1>3, <1>4

LEMMA HyphensCounted ==
  ASSUME NEW lines, NEW para, NEW k \in Nat, NEW n, Run(lines, para, k, n)
  PROVE  HyphensBefore(lines, para, k) = n
PROOF
<1> DEFINE m == HyphensBefore(lines, para, k)
<1>1. HyphensBefore(lines, para, k)
        = CHOOSE x \in 0 .. k - 1 :
            /\ \A j \in k - x .. k - 1 : lines[para[j].line].hyphen
            /\ x = k - 1 \/ ~ lines[para[k - x - 1].line].hyphen
  BY DEF HyphensBefore
<1>2. \E x \in 0 .. k - 1 :
            /\ \A j \in k - x .. k - 1 : lines[para[j].line].hyphen
            /\ x = k - 1 \/ ~ lines[para[k - x - 1].line].hyphen
  BY DEF Run
<1>3. Run(lines, para, k, m)
  BY <1>1, <1>2 DEF Run
<1> HIDE DEF m
<1>4. ~ (n < m) /\ ~ (m < n)
  BY <1>3, RunNotLonger
<1>5. n \in Int /\ m \in Int
  BY <1>3 DEF Run
<1>6. n = m
  BY <1>4, <1>5
<1> QED  BY <1>6 DEF m

GoodWord(lines, para, k) ==
  /\ para[k].line \in DOMAIN lines /\ ~ lines[para[k].line].blank
  /\ \A j \in 1 .. k - 1 : para[j].line < para[k].line
  /\ lines[para[k].line].ends => k = Len(para)
  /\ \E n : Run(lines, para, k, n) /\ (para[k].glued <=> n % 2 = 1)

GoodWords(lines, para) == \A k \in DOMAIN para : GoodWord(lines, para, k)

\* What glues the next word.
LastJoins(lines, para) ==
  para # <<>> /\ lines[para[Len(para)].line].hyphen /\ ~ para[Len(para)].glued

\* A run of the words before the last one, counted up to the word after it.
LEMMA RunExtends ==
  ASSUME NEW lines, NEW para, NEW k \in Nat \ {0}, NEW n, Run(lines, para, k, n),
         lines[para[k].line].hyphen \in BOOLEAN
  PROVE  Run(lines, para, k + 1, IF lines[para[k].line].hyphen THEN n + 1 ELSE 0)
PROOF
<1>1. n \in 0 .. k - 1
  BY DEF Run
<1>2. CASE lines[para[k].line].hyphen
  <2>1. n + 1 \in 0 .. (k + 1) - 1
    BY <1>1
  <2>2. \A j \in (k + 1) - (n + 1) .. (k + 1) - 1 : lines[para[j].line].hyphen
    <3> SUFFICES ASSUME NEW j \in (k + 1) - (n + 1) .. (k + 1) - 1
                 PROVE  lines[para[j].line].hyphen
      OBVIOUS
    <3>1. j = k \/ j \in k - n .. k - 1
      BY <1>1
    <3> QED  BY <1>2, <3>1 DEF Run
  <2>3. n + 1 = (k + 1) - 1 \/ ~ lines[para[(k + 1) - (n + 1) - 1].line].hyphen
    <3>1. (k + 1) - (n + 1) - 1 = k - n - 1 /\ (n = k - 1 => n + 1 = (k + 1) - 1)
      BY <1>1
    <3> QED  BY <3>1 DEF Run
  <2>4. Run(lines, para, k + 1, n + 1)
    BY <2>1, <2>2, <2>3 DEF Run
  <2> QED  BY <1>2, <2>4
<1>3. CASE ~ lines[para[k].line].hyphen
  <2>1. 0 \in 0 .. (k + 1) - 1
    OBVIOUS
  <2>2. \A j \in (k + 1) - 0 .. (k + 1) - 1 : lines[para[j].line].hyphen
    OBVIOUS
  <2>3. (k + 1) - 0 - 1 = k
    OBVIOUS
  <2>4. ~ lines[para[(k + 1) - 0 - 1].line].hyphen
    BY <1>3, <2>3
  <2>5. Run(lines, para, k + 1, 0)
    BY <2>1, <2>2, <2>4 DEF Run
  <2> QED  BY <1>3, <2>5
<1> QED  BY <1>2, <1>3

\* Runs see the words before theirs only.
LEMMA RunSame ==
  ASSUME NEW lines, NEW para, NEW longer, NEW k \in Nat, NEW n,
         \A j \in 1 .. k - 1 : longer[j] = para[j]
  PROVE  Run(lines, para, k, n) <=> Run(lines, longer, k, n)
PROOF
<1>1. ASSUME n \in 0 .. k - 1
      PROVE  /\ \A j \in k - n .. k - 1 : longer[j] = para[j]
             /\ n # k - 1 => longer[k - n - 1] = para[k - n - 1]
  <2>1. \A j \in k - n .. k - 1 : j \in 1 .. k - 1
    BY <1>1
  <2>2. n # k - 1 => k - n - 1 \in 1 .. k - 1
    BY <1>1
  <2> QED  BY <2>1, <2>2
<1> QED  BY <1>1 DEF Run

LEMMA OddNext == ASSUME NEW n \in Nat PROVE (n + 1) % 2 = 1 <=> ~ (n % 2 = 1)
OBVIOUS

LEMMA GoodWordKept ==
  ASSUME NEW lines, NEW para, NEW longer, NEW k \in Nat, GoodWord(lines, para, k),
         \A j \in 1 .. k : longer[j] = para[j], k \in Nat \ {0},
         ~ lines[para[k].line].ends
  PROVE  GoodWord(lines, longer, k)
PROOF
<1>1. longer[k] = para[k] /\ \A j \in 1 .. k - 1 : longer[j] = para[j]
  OBVIOUS
<1>2. PICK n : Run(lines, para, k, n) /\ (para[k].glued <=> n % 2 = 1)
  BY DEF GoodWord
<1>3. Run(lines, longer, k, n)
  BY <1>1, <1>2, RunSame
<1>4. /\ longer[k].line \in DOMAIN lines /\ ~ lines[longer[k].line].blank
      /\ \A j \in 1 .. k - 1 : longer[j].line < longer[k].line
      /\ ~ lines[longer[k].line].ends
  BY <1>1 DEF GoodWord
<1>5. longer[k].glued <=> n % 2 = 1
  BY <1>1, <1>2
<1> QED  BY <1>3, <1>4, <1>5 DEF GoodWord

LEMMA ParaExtended ==
  ASSUME NEW N \in Nat, NEW lines \in [1 .. N -> PdfLine], NEW para \in Seq(PdfWord(N)),
         GoodWords(lines, para), NEW i \in 1 .. N, ~ lines[i].blank,
         \A j \in DOMAIN para : para[j].line < i /\ ~ lines[para[j].line].ends,
         NEW glue \in BOOLEAN, glue <=> LastJoins(lines, para)
  PROVE  GoodWords(lines, Append(para, [line |-> i, glued |-> glue]))
PROOF
<1> DEFINE w == [line |-> i, glued |-> glue]
           a == Append(para, w)
           M == Len(para)
<1>1. w \in PdfWord(N) /\ w.line = i /\ w.glued = glue
  BY DEF PdfWord
<1>2. M \in Nat /\ DOMAIN para = 1 .. M /\ \A j \in 1 .. M : para[j] \in PdfWord(N)
  BY LenProperties
<1> HIDE DEF w
<1>3. /\ a \in Seq(PdfWord(N)) /\ Len(a) = M + 1 /\ \A j \in 1 .. M : a[j] = para[j]
      /\ a[M + 1] = w
  BY <1>1, AppendProperties
<1>4. DOMAIN a = 1 .. M + 1
  BY <1>3, LenProperties
<1>5. lines[i] \in PdfLine /\ DOMAIN lines = 1 .. N
  OBVIOUS
<1> HIDE DEF a
<1>6. \A k \in 1 .. M : GoodWord(lines, a, k)
  <2> SUFFICES ASSUME NEW k \in 1 .. M PROVE GoodWord(lines, a, k)
    OBVIOUS
  <2>1. k \in Nat \ {0} /\ \A j \in 1 .. k : a[j] = para[j]
    BY <1>2, <1>3
  <2>2. GoodWord(lines, para, k) /\ ~ lines[para[k].line].ends
    BY <1>2 DEF GoodWords
  <2> QED  BY <2>1, <2>2, GoodWordKept
<1>7. GoodWord(lines, a, M + 1)
  <2>1. a[M + 1].line = i /\ a[M + 1].glued = glue
    BY <1>1, <1>3
  <2>2. \A j \in 1 .. M : a[j].line < i
    BY <1>2, <1>3
  <2>3. PICK n : Run(lines, a, M + 1, n) /\ (glue <=> n % 2 = 1)
    <3>1. CASE M = 0
      <4>1. ~ glue
        <5>1. para = <<>>
          BY <1>2, <3>1
        <5> QED  BY <5>1 DEF LastJoins
      <4>2. Run(lines, a, M + 1, 0)
        BY <3>1 DEF Run
      <4>3. ~ (0 % 2 = 1)
        OBVIOUS
      <4> QED  BY <4>1, <4>2, <4>3
    <3>2. CASE M # 0
      <4>1. M \in Nat \ {0} /\ para # <<>> /\ M \in DOMAIN para
        BY <1>2, <3>2
      <4>2. PICK m : Run(lines, para, M, m) /\ (para[M].glued <=> m % 2 = 1)
        BY <4>1 DEF GoodWords, GoodWord
      <4>3. m \in Nat
        BY <4>1, <4>2 DEF Run
      <4>4. para[M].line \in 1 .. N
        BY <1>2, <4>1 DEF PdfWord
      <4>5. lines[para[M].line].hyphen \in BOOLEAN
        BY <4>4 DEF PdfLine
      <4>6. Run(lines, a, M, m)
        <5>1. \A j \in 1 .. M - 1 : a[j] = para[j]
          BY <1>2, <1>3
        <5> QED  BY <4>1, <4>2, <5>1, RunSame
      <4>7. a[M] = para[M]
        BY <1>3, <4>1
      <4>8. Run(lines, a, M + 1, IF lines[para[M].line].hyphen THEN m + 1 ELSE 0)
        BY <4>1, <4>5, <4>6, <4>7, RunExtends
      <4>9. glue <=> lines[para[M].line].hyphen /\ ~ para[M].glued
        BY <4>1 DEF LastJoins
      <4>10. CASE lines[para[M].line].hyphen
        <5>1. Run(lines, a, M + 1, m + 1)
          BY <4>8, <4>10
        <5>2. (m + 1) % 2 = 1 <=> ~ (m % 2 = 1)
          BY <4>3, OddNext
        <5>3. glue <=> (m + 1) % 2 = 1
          BY <4>2, <4>9, <4>10, <5>2
        <5> QED  BY <5>1, <5>3
      <4>11. CASE ~ lines[para[M].line].hyphen
        <5>1. Run(lines, a, M + 1, 0)
          BY <4>8, <4>11
        <5>2. ~ (0 % 2 = 1)
          OBVIOUS
        <5>3. glue <=> 0 % 2 = 1
          BY <4>9, <4>11, <5>2
        <5> QED  BY <5>1, <5>3
      <4> QED  BY <4>10, <4>11
    <3> QED  BY <3>1, <3>2
  <2>4. a[M + 1].glued <=> n % 2 = 1
    BY <2>1, <2>3
  <2>5. (M + 1) - 1 = M
    BY <1>2
  <2>6. /\ a[M + 1].line \in DOMAIN lines /\ ~ lines[a[M + 1].line].blank
        /\ \A j \in 1 .. (M + 1) - 1 : a[j].line < a[M + 1].line
    BY <1>5, <2>1, <2>2, <2>5
  <2> QED  BY <1>3, <2>3, <2>4, <2>6 DEF GoodWord
<1>8. GoodWords(lines, a)
  <2>1. \A k \in 1 .. M + 1 : k \in 1 .. M \/ k = M + 1
    BY <1>2
  <2> QED  BY <1>4, <1>6, <1>7, <2>1 DEF GoodWords
<1> QED  BY <1>8 DEF a, w

Below(a, b) == \A j \in DOMAIN a, m \in DOMAIN b : a[j].line < b[m].line

HasLine(para, i) == \E j \in DOMAIN para : para[j].line = i

Closed(lines, para, k) ==
  /\ GoodWords(lines, para)
  /\ \A j \in DOMAIN para : para[j].line <= k /\ (j = Len(para) => lines[para[j].line].ends)

Open(lines, para, k) ==
  /\ GoodWords(lines, para)
  /\ \A j \in DOMAIN para : para[j].line <= k /\ ~ lines[para[j].line].ends

InOrder(paras, para) ==
  /\ \A p \in DOMAIN paras : \A q \in 1 .. p - 1 : Below(paras[q], paras[p])
  /\ \A q \in DOMAIN paras : Below(paras[q], para)

FoundLines(lines, st, k) ==
  \A i \in 1 .. k : ~ lines[i].blank =>
    HasLine(st.para, i) \/ \E p \in DOMAIN st.paras : HasLine(st.paras[p], i)

PageInv(N, lines, st, k) ==
  /\ st \in PdfState(N)
  /\ Open(lines, st.para, k)
  /\ \A p \in DOMAIN st.paras : Closed(lines, st.paras[p], k)
  /\ InOrder(st.paras, st.para)
  /\ FoundLines(lines, st, k)
  /\ st.join <=> LastJoins(lines, st.para)

\* A line with text is the next word of the paragraph.
LEMMA WordAdded ==
  ASSUME NEW N \in Nat, NEW lines \in [1 .. N -> PdfLine], NEW st, NEW k \in 1 .. N,
         PageInv(N, lines, st, k - 1), ~ lines[k].blank
  PROVE  LET a == WithWord(st, k) IN
         /\ a \in Seq(PdfWord(N)) /\ Len(a) \in Nat \ {0} /\ a[Len(a)].line = k
         /\ a[Len(a)].glued = Glue(st) /\ a # <<>>
         /\ GoodWords(lines, a)
         /\ \A j \in DOMAIN a : a[j].line <= k
         /\ \A j \in DOMAIN a : j # Len(a) => ~ lines[a[j].line].ends
         /\ \A q \in DOMAIN st.paras : Below(st.paras[q], a)
         /\ HasLine(a, k) /\ \A i : HasLine(st.para, i) => HasLine(a, i)
PROOF
<1> DEFINE para == st.para
           w == [line |-> k, glued |-> Glue(st)]
           a == Append(para, w)
           M == Len(para)
<1>1. /\ st \in PdfState(N) /\ para \in Seq(PdfWord(N)) /\ st.join \in BOOLEAN
      /\ st.paras \in Seq(Seq(PdfWord(N)))
  BY DEF PageInv, PdfState
<1>2. Glue(st) \in BOOLEAN
  BY <1>1 DEF Glue
<1>3. w \in PdfWord(N) /\ w.line = k /\ w.glued = Glue(st)
  BY <1>2 DEF PdfWord
<1>4. Open(lines, para, k - 1) /\ InOrder(st.paras, para)
      /\ (st.join <=> LastJoins(lines, para))
  BY DEF PageInv
<1>5. a = WithWord(st, k)
  BY DEF WithWord
<1> HIDE DEF para
<1>6. M \in Nat /\ DOMAIN para = 1 .. M /\ \A j \in 1 .. M : para[j] \in PdfWord(N)
  BY <1>1, LenProperties
<1>7. \A j \in 1 .. M : para[j].line \in 1 .. N
  BY <1>6 DEF PdfWord
<1>8. \A j \in DOMAIN para : para[j].line < k /\ ~ lines[para[j].line].ends
  <2>1. \A j \in DOMAIN para : para[j].line <= k - 1 /\ ~ lines[para[j].line].ends
    BY <1>4 DEF Open
  <2> QED  BY <1>6, <1>7, <2>1
<1>9. GoodWords(lines, a)
  <2>1. Glue(st) <=> LastJoins(lines, para)
    BY <1>4 DEF Glue, LastJoins, para
  <2>2. GoodWords(lines, para)
    BY <1>4 DEF Open
  <2>3. PICK glue \in BOOLEAN : glue = Glue(st)
    BY <1>2
  <2>4. glue <=> LastJoins(lines, para)
    BY <2>1, <2>3
  <2>5. GoodWords(lines, Append(para, [line |-> k, glued |-> glue]))
    BY <1>1, <1>8, <2>2, <2>4, ParaExtended
  <2> QED  BY <2>3, <2>5
<1> HIDE DEF w
<1>10. /\ a \in Seq(PdfWord(N)) /\ Len(a) = M + 1 /\ \A j \in 1 .. M : a[j] = para[j]
       /\ a[M + 1] = w /\ a # <<>>
  BY <1>1, <1>3, AppendProperties
<1>11. DOMAIN a = 1 .. M + 1
  BY <1>10, LenProperties
<1> HIDE DEF a, M
<1>12. Len(a) \in Nat \ {0} /\ a[Len(a)].line = k /\ a[Len(a)].glued = Glue(st)
  BY <1>3, <1>6, <1>10
<1>13. \A j \in DOMAIN a : j = Len(a) \/ (j \in DOMAIN para /\ a[j] = para[j] /\ j # Len(a))
  BY <1>6, <1>10, <1>11
<1>14. \A j \in DOMAIN a : a[j].line <= k
  BY <1>6, <1>7, <1>8, <1>12, <1>13
<1>15. \A j \in DOMAIN a : j # Len(a) => ~ lines[a[j].line].ends
  BY <1>8, <1>13
<1>16. \A q \in DOMAIN st.paras : Below(st.paras[q], a)
  <2> SUFFICES ASSUME NEW q \in DOMAIN st.paras, NEW j \in DOMAIN st.paras[q],
                      NEW m \in DOMAIN a
               PROVE  st.paras[q][j].line < a[m].line
    BY DEF Below
  <2>1. CASE m = Len(a)
    <3>1. st.paras[q][j].line <= k - 1
      BY DEF PageInv, Closed
    <3>2. st.paras[q] \in Seq(PdfWord(N))
      BY <1>1, LenProperties
    <3>3. st.paras[q][j] \in PdfWord(N)
      BY <3>2, LenProperties
    <3>4. st.paras[q][j].line \in 1 .. N
      BY <3>3 DEF PdfWord
    <3> QED  BY <1>12, <2>1, <3>1, <3>4
  <2>2. CASE m # Len(a)
    <3>1. m \in DOMAIN para /\ a[m] = para[m]
      BY <1>13, <2>2
    <3> QED  BY <1>4, <3>1 DEF InOrder, Below
  <2> QED  BY <2>1, <2>2
<1>17. HasLine(a, k) /\ \A i : HasLine(para, i) => HasLine(a, i)
  <2>1. Len(a) \in DOMAIN a /\ \A j \in DOMAIN para : j \in DOMAIN a /\ a[j] = para[j]
    BY <1>6, <1>10, <1>11
  <2> QED  BY <1>12, <2>1 DEF HasLine
<1> QED  BY <1>5, <1>9, <1>10, <1>12, <1>14, <1>15, <1>16, <1>17 DEF para

LEMMA PageStep ==
  ASSUME NEW N \in Nat, NEW lines \in [1 .. N -> PdfLine], NEW st, NEW k \in 1 .. N,
         PageInv(N, lines, st, k - 1)
  PROVE  PageInv(N, lines, AddLine(lines, st, k), k)
PROOF
<1> DEFINE a == WithWord(st, k)
           next == AddLine(lines, st, k)
<1>1. /\ lines[k].blank \in BOOLEAN /\ lines[k].ends \in BOOLEAN
      /\ lines[k].hyphen \in BOOLEAN
  <2>1. lines[k] \in PdfLine
    OBVIOUS
  <2> QED  BY <2>1 DEF PdfLine
<1>2. st \in PdfState(N)
  BY DEF PageInv
<1>3. next \in PdfState(N)
  BY <1>2, AddLineTyped
<1>4. /\ st.para \in Seq(PdfWord(N)) /\ st.paras \in Seq(Seq(PdfWord(N)))
      /\ st.join \in BOOLEAN
  BY <1>2 DEF PdfState
<1>5. \A j \in DOMAIN st.para : st.para[j].line <= k
  <2> SUFFICES ASSUME NEW j \in DOMAIN st.para PROVE st.para[j].line <= k
    OBVIOUS
  <2>1. st.para[j] \in PdfWord(N) /\ st.para[j].line <= k - 1
    BY <1>4, LenProperties DEF PageInv, Open
  <2>2. st.para[j].line \in 1 .. N
    BY <2>1 DEF PdfWord
  <2> QED  BY <2>1, <2>2
<1>6. \A p \in DOMAIN st.paras : Closed(lines, st.paras[p], k)
  <2> SUFFICES ASSUME NEW p \in DOMAIN st.paras, NEW j \in DOMAIN st.paras[p]
               PROVE  st.paras[p][j].line <= k
    BY DEF PageInv, Closed
  <2>1. st.paras[p][j].line <= k - 1
    BY DEF PageInv, Closed
  <2>2. st.paras[p] \in Seq(PdfWord(N))
    BY <1>4, LenProperties
  <2>3. st.paras[p][j] \in PdfWord(N)
    BY <2>2, LenProperties
  <2>4. st.paras[p][j].line \in 1 .. N
    BY <2>3 DEF PdfWord
  <2> QED  BY <2>1, <2>4
<1>7. next = IF lines[k].blank THEN st
             ELSE IF lines[k].ends
                  THEN [paras |-> Append(st.paras, a), para |-> <<>>, join |-> FALSE]
                  ELSE [paras |-> st.paras, para |-> a,
                        join |-> lines[k].hyphen /\ ~ Glue(st)]
  BY <1>1, AddLineValue
<1> HIDE DEF next
<1>8. CASE lines[k].blank
  <2>1. next = st
    BY <1>7, <1>8
  <2>2. Open(lines, st.para, k)
    BY <1>5 DEF PageInv, Open
  <2>3. FoundLines(lines, st, k)
    <3>1. \A i \in 1 .. k : ~ lines[i].blank => i \in 1 .. k - 1
      BY <1>8
    <3> QED  BY <3>1 DEF PageInv, FoundLines
  <2>4. InOrder(st.paras, st.para) /\ (st.join <=> LastJoins(lines, st.para))
    BY DEF PageInv
  <2>5. PageInv(N, lines, st, k)
    BY <1>2, <1>6, <2>2, <2>3, <2>4 DEF PageInv
  <2> QED  BY <2>1, <2>5 DEF next
<1>9. CASE ~ lines[k].blank
  <2>1. /\ a \in Seq(PdfWord(N)) /\ Len(a) \in Nat \ {0} /\ a[Len(a)].line = k
        /\ a[Len(a)].glued = Glue(st) /\ a # <<>>
        /\ GoodWords(lines, a)
        /\ \A j \in DOMAIN a : a[j].line <= k
        /\ \A j \in DOMAIN a : j # Len(a) => ~ lines[a[j].line].ends
        /\ \A q \in DOMAIN st.paras : Below(st.paras[q], a)
        /\ HasLine(a, k) /\ \A i : HasLine(st.para, i) => HasLine(a, i)
    BY <1>9, WordAdded
  <2>2. \A i \in 1 .. k : ~ lines[i].blank =>
          HasLine(a, i) \/ \E p \in DOMAIN st.paras : HasLine(st.paras[p], i)
    <3>1. \A i \in 1 .. k : i = k \/ i \in 1 .. k - 1
      OBVIOUS
    <3> HIDE DEF a
    <3> QED  BY <2>1, <3>1 DEF PageInv, FoundLines
  <2> HIDE DEF a
  <2>3. CASE lines[k].ends
    <3> DEFINE b == Append(st.paras, a)
               K == Len(st.paras)
    <3>1. next = [paras |-> b, para |-> <<>>, join |-> FALSE]
      BY <1>7, <1>9, <2>3
    <3>2. K \in Nat /\ DOMAIN st.paras = 1 .. K
      BY <1>4, LenProperties
    <3>3. /\ b \in Seq(Seq(PdfWord(N))) /\ Len(b) = K + 1
          /\ \A p \in 1 .. K : b[p] = st.paras[p]
          /\ b[K + 1] = a
      BY <1>4, <2>1, AppendProperties
    <3>4. DOMAIN b = 1 .. K + 1
      BY <3>3, LenProperties
    <3> HIDE DEF b, K
    <3>5. \A p \in DOMAIN b : p = K + 1 \/ (p \in DOMAIN st.paras /\ b[p] = st.paras[p])
      BY <3>2, <3>3, <3>4
    <3>6. next.paras = b /\ next.para = <<>> /\ next.join = FALSE
      BY <3>1
    <3>7. Open(lines, <<>>, k) /\ ~ LastJoins(lines, <<>>)
      BY DEF Open, GoodWords, LastJoins
    <3>8. Closed(lines, a, k)
      BY <2>1, <2>3 DEF Closed
    <3>9. \A p \in DOMAIN b : Closed(lines, b[p], k)
      BY <1>6, <3>3, <3>5, <3>8
    <3>10. InOrder(b, <<>>)
      <4>1. ASSUME NEW p \in DOMAIN b, NEW q \in 1 .. p - 1 PROVE Below(b[q], b[p])
        <5>1. q \in DOMAIN st.paras /\ b[q] = st.paras[q]
          BY <3>2, <3>3, <3>4
        <5>2. CASE p = K + 1
          BY <2>1, <3>3, <5>1, <5>2
        <5>3. CASE p \in DOMAIN st.paras /\ b[p] = st.paras[p]
          BY <5>1, <5>3 DEF PageInv, InOrder
        <5> QED  BY <3>5, <5>2, <5>3
      <4>2. \A q \in DOMAIN b : Below(b[q], <<>>)
        BY DEF Below
      <4> QED  BY <4>1, <4>2 DEF InOrder
    <3>11. FoundLines(lines, next, k)
      <4>1. \A i : HasLine(a, i) => \E p \in DOMAIN b : HasLine(b[p], i)
        <5>1. K + 1 \in DOMAIN b
          BY <3>2, <3>4
        <5> QED  BY <3>3, <5>1
      <4>2. \A p \in DOMAIN st.paras : p \in DOMAIN b /\ b[p] = st.paras[p]
        BY <3>2, <3>3, <3>4
      <4> QED  BY <2>2, <3>6, <4>1, <4>2 DEF FoundLines
    <3> QED  BY <1>3, <3>6, <3>7, <3>9, <3>10, <3>11 DEF PageInv, next
  <2>4. CASE ~ lines[k].ends
    <3>1. /\ next.paras = st.paras /\ next.para = a
          /\ next.join = (lines[k].hyphen /\ ~ Glue(st))
      BY <1>7, <1>9, <2>4
    <3>2. Open(lines, a, k)
      BY <2>1, <2>4 DEF Open
    <3>3. InOrder(st.paras, a)
      BY <2>1 DEF PageInv, InOrder
    <3>4. FoundLines(lines, next, k)
      BY <2>2, <3>1 DEF FoundLines
    <3>5. next.join <=> LastJoins(lines, a)
      BY <2>1, <3>1 DEF LastJoins
    <3> QED  BY <1>3, <1>6, <3>1, <3>2, <3>3, <3>4, <3>5 DEF PageInv, next
  <2> QED  BY <1>1, <2>3, <2>4
<1> QED  BY <1>1, <1>8, <1>9

\* NormalizePDFText loses and moves no word, ends a paragraph exactly where a sentence
\* ends, and joins a word to the one before it exactly after an odd number of words
\* that end in a hyphen: for every page.
THEOREM PagesRead ==
  ASSUME NEW lines \in Seq([blank : BOOLEAN, ends : BOOLEAN, hyphen : BOOLEAN])
  PROVE  PagesAgree(lines)
PROOF
<1> DEFINE N == Len(lines)
<1>1. N \in Nat /\ lines \in [1 .. N -> PdfLine] /\ DOMAIN lines = 1 .. N
  BY LenProperties DEF PdfLine
<1> HIDE DEF N
<1>2. PICK h : /\ h[0] = NoWords /\ h[N] = LinesRead(lines)
               /\ \A k \in 1 .. N : h[k] = AddLine(lines, h[k - 1], k)
  BY <1>1, PageSteps
<1> DEFINE G == {k \in 0 .. N : PageInv(N, lines, h[k], k)}
<1>3. 0 \in G
  <2>1. NoWords \in PdfState(N)
    BY DEF NoWords, PdfState
  <2>2. NoWords.para = <<>> /\ NoWords.paras = <<>> /\ NoWords.join = FALSE
    BY DEF NoWords
  <2>3. Open(lines, <<>>, 0) /\ ~ LastJoins(lines, <<>>) /\ InOrder(<<>>, <<>>)
    BY DEF Open, GoodWords, LastJoins, InOrder
  <2>4. FoundLines(lines, NoWords, 0)
    BY DEF FoundLines
  <2>5. PageInv(N, lines, NoWords, 0)
    BY <2>1, <2>2, <2>3, <2>4 DEF PageInv
  <2>6. 0 \in 0 .. N
    BY <1>1
  <2> QED  BY <1>2, <2>5, <2>6
<1>4. ASSUME NEW k \in 1 .. N, k - 1 \in G PROVE k \in G
  <2>1. PICK st : st = h[k - 1]
    OBVIOUS
  <2>2. PageInv(N, lines, st, k - 1)
    BY <1>4, <2>1
  <2>3. PageInv(N, lines, AddLine(lines, st, k), k)
    BY <1>1, <2>2, PageStep
  <2>4. h[k] = AddLine(lines, st, k) /\ k \in 0 .. N
    BY <1>1, <1>2, <2>1
  <2> QED  BY <2>3, <2>4
<1>5. PageInv(N, lines, LinesRead(lines), N)
  <2>1. N \in G
    <3> HIDE DEF G
    <3>1. Climbs(G, N)
      BY <1>3, <1>4 DEF Climbs
    <3>2. N \in 0 .. N
      BY <1>1
    <3> QED  BY <1>1, <3>1, <3>2, UpTo
  <2> QED  BY <1>2, <2>1
<1>6. PICK st : st = LinesRead(lines)
  OBVIOUS
<1> DEFINE paras == NormalizePDFText(lines)
<1>7. paras = IF st.para = <<>> THEN st.paras ELSE Append(st.paras, st.para)
  BY <1>6, PageFold
<1> HIDE DEF paras
<1>8. PageInv(N, lines, st, N)
  BY <1>5, <1>6
<1>9. st.para \in Seq(PdfWord(N)) /\ st.paras \in Seq(Seq(PdfWord(N)))
  BY <1>8 DEF PageInv, PdfState
<1>10. /\ paras \in Seq(Seq(PdfWord(N)))
       /\ \A p \in DOMAIN paras :
            \/ p \in DOMAIN st.paras /\ paras[p] = st.paras[p]
            \/ p = Len(paras) /\ paras[p] = st.para
       /\ \A p \in DOMAIN st.paras : p \in DOMAIN paras /\ paras[p] = st.paras[p]
       /\ st.para # <<>> => \E p \in DOMAIN paras : paras[p] = st.para
       /\ \A p \in DOMAIN paras : \A q \in 1 .. p - 1 :
            q \in DOMAIN st.paras /\ paras[q] = st.paras[q]
  <2> DEFINE K == Len(st.paras)
  <2>1. K \in Nat /\ DOMAIN st.paras = 1 .. K
    BY <1>9, LenProperties
  <2>2. CASE st.para = <<>>
    <3>1. paras = st.paras
      BY <1>7, <2>2
    <3> QED  BY <1>9, <2>1, <2>2, <3>1
  <2>3. CASE st.para # <<>>
    <3>1. paras = Append(st.paras, st.para)
      BY <1>7, <2>3
    <3>2. /\ paras \in Seq(Seq(PdfWord(N))) /\ Len(paras) = K + 1
          /\ \A p \in 1 .. K : paras[p] = st.paras[p]
          /\ paras[K + 1] = st.para
      BY <1>9, <3>1, AppendProperties
    <3>3. DOMAIN paras = 1 .. K + 1
      BY <3>2, LenProperties
    <3> HIDE DEF K
    <3>4. \A p \in 1 .. K + 1 : p \in 1 .. K \/ p = K + 1
      BY <2>1
    <3>5. \A p \in DOMAIN paras :
            \/ p \in DOMAIN st.paras /\ paras[p] = st.paras[p]
            \/ p = Len(paras) /\ paras[p] = st.para
      BY <2>1, <3>2, <3>3, <3>4
    <3>6. \A p \in DOMAIN st.paras : p \in DOMAIN paras /\ paras[p] = st.paras[p]
      BY <2>1, <3>2, <3>3
    <3>7. K + 1 \in DOMAIN paras
      BY <2>1, <3>3
    <3>8. \A p \in DOMAIN paras : \A q \in 1 .. p - 1 : q \in 1 .. K
      BY <2>1, <3>3
    <3>9. \A p \in DOMAIN paras : \A q \in 1 .. p - 1 :
            q \in DOMAIN st.paras /\ paras[q] = st.paras[q]
      BY <2>1, <3>2, <3>8
    <3> QED  BY <3>2, <3>5, <3>6, <3>7, <3>9
  <2> QED  BY <2>2, <2>3
<1>11. \A p \in DOMAIN paras : GoodWords(lines, paras[p])
  BY <1>8, <1>10 DEF PageInv, Closed, Open
<1>12. \A p \in DOMAIN paras : \A q \in 1 .. p - 1 : Below(paras[q], paras[p])
  BY <1>8, <1>10 DEF PageInv, InOrder
<1>13. \A i \in DOMAIN lines : ~ lines[i].blank => \E p \in DOMAIN paras : HasLine(paras[p], i)
  <2>1. \A i : HasLine(st.para, i) => st.para # <<>>
    BY DEF HasLine
  <2> QED  BY <1>1, <1>8, <1>10, <2>1 DEF PageInv, FoundLines
<1>14. ASSUME NEW p \in DOMAIN paras, NEW k \in DOMAIN paras[p]
       PROVE  /\ paras[p][k].line \in DOMAIN lines /\ ~ lines[paras[p][k].line].blank
              /\ \A q \in 1 .. p : \A j \in DOMAIN paras[q] :
                   q < p \/ j < k => paras[q][j].line < paras[p][k].line
              /\ lines[paras[p][k].line].ends => k = Len(paras[p])
              /\ k = Len(paras[p]) => lines[paras[p][k].line].ends \/ p = Len(paras)
              /\ paras[p][k].glued <=> HyphensBefore(lines, paras[p], k) % 2 = 1
  <2>1. GoodWord(lines, paras[p], k)
    BY <1>11 DEF GoodWords
  <2>2. paras[p] \in Seq(PdfWord(N)) /\ p \in Nat \ {0}
    BY <1>10, LenProperties
  <2>3. k \in Nat \ {0} /\ DOMAIN paras[p] = 1 .. Len(paras[p]) /\ Len(paras[p]) \in Nat
    BY <2>2, LenProperties
  <2>4. /\ paras[p][k].line \in DOMAIN lines /\ ~ lines[paras[p][k].line].blank
        /\ lines[paras[p][k].line].ends => k = Len(paras[p])
    BY <2>1 DEF GoodWord
  <2>5. ASSUME NEW q \in 1 .. p, NEW j \in DOMAIN paras[q], q < p \/ j < k
        PROVE  paras[q][j].line < paras[p][k].line
    <3>1. CASE q < p
      <4>1. q \in 1 .. p - 1
        BY <2>2, <3>1
      <4> QED  BY <1>12, <4>1 DEF Below
    <3>2. CASE q = p
      <4>1. j \in 1 .. k - 1
        BY <2>3, <2>5, <3>2
      <4> QED  BY <2>1, <3>2, <4>1 DEF GoodWord
    <3> QED  BY <2>2, <3>1, <3>2
  <2>6. k = Len(paras[p]) => lines[paras[p][k].line].ends \/ p = Len(paras)
    BY <1>8, <1>10 DEF PageInv, Closed
  <2>7. paras[p][k].glued <=> HyphensBefore(lines, paras[p], k) % 2 = 1
    <3>1. PICK n : Run(lines, paras[p], k, n) /\ (paras[p][k].glued <=> n % 2 = 1)
      BY <2>1 DEF GoodWord
    <3>2. HyphensBefore(lines, paras[p], k) = n
      BY <2>3, <3>1, HyphensCounted
    <3> QED  BY <3>1, <3>2
  <2> QED  BY <2>4, <2>5, <2>6, <2>7
<1> QED  BY <1>13, <1>14 DEF PagesAgree, HasLine, paras

(***************************************************************************)
(* Chunks.                                                                 *)
(***************************************************************************)

Rune == Nat \X Nat

Documents == Seq([runes : Nat, wide : BOOLEAN])

Chunkers == [ChunkSize : Nat \ {0}, ChunkOverlap : Nat \ {0}]

LEMMA ChunkerTyped ==
  ASSUME NEW size \in Int, NEW overlap \in Int
  PROVE  RecursiveChunker(size, overlap) \in Chunkers
PROOF
<1>1. DefaultChunkSize \in Nat \ {0} /\ DefaultChunkOverlap \in Nat \ {0}
  BY ChunkDefaultsAssumption
<1>2. (IF size <= 0 THEN DefaultChunkSize ELSE size) \in Nat \ {0}
  BY <1>1
<1>3. (IF overlap <= 0 THEN DefaultChunkOverlap ELSE overlap) \in Nat \ {0}
  BY <1>1
<1> QED  BY <1>2, <1>3 DEF RecursiveChunker, Chunkers

LEMMA FunctionIsSeq ==
  ASSUME NEW n \in Nat, NEW S, NEW f \in [1 .. n -> S]
  PROVE  f \in Seq(S) /\ Len(f) = n
PROOF
<1>1. f \in Seq(S)
  BY SeqDef
<1>2. Len(f) \in Nat /\ 1 .. Len(f) = 1 .. n
  BY <1>1, LenProperties
<1>3. Len(f) = n
  <2>1. n # 0 => n \in 1 .. Len(f)
    BY <1>2
  <2>2. Len(f) # 0 => Len(f) \in 1 .. n
    BY <1>2
  <2> QED  BY <1>2, <2>1, <2>2
<1> QED  BY <1>1, <1>3

LEMMA ParagraphIs ==
  ASSUME NEW doc \in Documents, NEW p \in DOMAIN doc
  PROVE  /\ Paragraph(doc, p) \in Seq(Rune) /\ Len(Paragraph(doc, p)) = doc[p].runes
         /\ \A i \in 1 .. doc[p].runes : Paragraph(doc, p)[i] = <<p, i>>
         /\ doc[p].runes \in Nat /\ p \in Nat \ {0}
PROOF
<1>1. doc[p].runes \in Nat /\ p \in Nat \ {0}
  <2>1. doc \in Seq([runes : Nat, wide : BOOLEAN])
    BY DEF Documents
  <2>2. DOMAIN doc = 1 .. Len(doc) /\ Len(doc) \in Nat
    BY <2>1, LenProperties
  <2>3. doc[p] \in [runes : Nat, wide : BOOLEAN]
    BY <2>1, <2>2, ElementOfSeq
  <2> QED  BY <2>2, <2>3
<1>2. \A i \in 1 .. doc[p].runes : <<p, i>> \in Rune
  BY <1>1 DEF Rune
<1>3. Paragraph(doc, p) \in [1 .. doc[p].runes -> Rune]
  BY <1>2 DEF Paragraph
<1>4. \A i \in 1 .. doc[p].runes : Paragraph(doc, p)[i] = <<p, i>>
  BY DEF Paragraph
<1> QED  BY <1>1, <1>3, <1>4, FunctionIsSeq

LEMMA TailIs ==
  ASSUME NEW c \in Chunkers, NEW S, NEW text \in Seq(S), text # <<>>
  PROVE  LET tail == GetTail(c, text) IN
         /\ tail \in Seq(S) /\ Len(tail) \in 1 .. c.ChunkOverlap /\ Len(tail) <= Len(text)
         /\ Len(text) >= c.ChunkOverlap => Len(tail) = c.ChunkOverlap
         /\ \A i \in 1 .. Len(tail) : tail[i] = text[Len(text) - Len(tail) + i]
         /\ InText(tail) \subseteq InText(text) /\ tail # <<>>
PROOF
<1> DEFINE L == Len(text)
           V == c.ChunkOverlap
           m == IF L <= V THEN 1 ELSE L - V + 1
           tail == SubSeq(text, m, L)
<1>1. L \in Nat \ {0} /\ V \in Nat \ {0} /\ DOMAIN text = 1 .. L
  BY LenProperties, EmptySeq DEF Chunkers
<1>2. tail = GetTail(c, text)
  BY DEF GetTail
<1> HIDE DEF L, V
<1>3. m \in 1 .. L
  BY <1>1
<1>4. \A i \in m .. L : text[i] \in S
  <2>1. \A i \in m .. L : i \in 1 .. L
    BY <1>1, <1>3
  <2> QED  BY <1>1, <2>1, LenProperties DEF L
<1>5. m <= L /\ m \in Int /\ L \in Int
  BY <1>1, <1>3
<1>6. L - m + 1 \in 1 .. V /\ L - m + 1 <= L /\ (L >= V => L - m + 1 = V)
  BY <1>1
<1> HIDE DEF m
<1>7. /\ tail \in Seq(S) /\ Len(tail) = L - m + 1
      /\ \A i \in 1 .. L - m + 1 : tail[i] = text[m + i - 1]
  BY <1>4, <1>5, SubSeqProperties
<1> HIDE DEF tail
<1>8. \A i \in 1 .. Len(tail) : tail[i] = text[L - Len(tail) + i] /\ L - Len(tail) + i \in 1 .. L
  <2> SUFFICES ASSUME NEW i \in 1 .. Len(tail)
               PROVE  tail[i] = text[L - Len(tail) + i] /\ L - Len(tail) + i \in 1 .. L
    OBVIOUS
  <2>1. m + i - 1 = L - Len(tail) + i /\ m + i - 1 \in 1 .. L
    BY <1>3, <1>5, <1>7
  <2>2. tail[i] = text[m + i - 1]
    BY <1>7
  <2> QED  BY <2>1, <2>2
<1>9. DOMAIN tail = 1 .. Len(tail)
  BY <1>7, LenProperties
<1>10. InText(tail) \subseteq InText(text)
  BY <1>1, <1>8, <1>9 DEF InText
<1>11. tail # <<>>
  BY <1>6, <1>7
<1> QED  BY <1>2, <1>6, <1>7, <1>8, <1>10, <1>11 DEF L, V

LEMMA Quotient ==
  ASSUME NEW a \in Nat, NEW b \in Nat \ {0}
  PROVE  a \div b \in Nat /\ (a \div b) * b <= a /\ a < (a \div b) * b + b
OBVIOUS

LEMMA ProductNat == ASSUME NEW a \in Nat, NEW b \in Nat PROVE a * b \in Nat
OBVIOUS

LEMMA ProductNext == ASSUME NEW a \in Nat, NEW b \in Nat PROVE (a + 1) * b = a * b + b
OBVIOUS

LEMMA ProductMonotone ==
  ASSUME NEW a \in Nat, NEW b \in Nat, NEW m \in Nat, a <= b
  PROVE  a * m <= b * m
PROOF
<1>1. PICK d \in Nat : b = a + d
  <2>1. b - a \in Nat /\ b = a + (b - a)
    OBVIOUS
  <2> QED  BY <2>1
<1>2. d * m \in Nat /\ a * m \in Nat
  BY ProductNat
<1>3. b * m = a * m + d * m
  BY <1>1
<1> QED  BY <1>2, <1>3

\* The windows of a paragraph p of L runes: window k has its runes from[k] + 1 to
\* upTo[k].
Windows(c, p, L, w, K, from, upTo) ==
  /\ K \in Nat \ {0} /\ from \in [1 .. K -> Nat] /\ upTo \in [1 .. K -> Nat]
  /\ w \in Seq(Seq(Rune)) /\ Len(w) = K
  /\ from[1] = 0 /\ upTo[K] = L
  /\ \A k \in 1 .. K : /\ from[k] < upTo[k] /\ upTo[k] - from[k] <= c.ChunkSize
                        /\ Len(w[k]) = upTo[k] - from[k]
                        /\ \A i \in 1 .. Len(w[k]) : w[k][i] = <<p, from[k] + i>>
  /\ \A k \in 2 .. K : /\ upTo[k - 1] = from[k - 1] + c.ChunkSize
                        /\ from[k] = upTo[k - 1] - c.ChunkOverlap
                        /\ upTo[k - 1] < upTo[k]

LEMMA SplitWindows ==
  ASSUME NEW c \in Chunkers, c.ChunkOverlap < c.ChunkSize, NEW p \in Nat,
         NEW text \in Seq(Rune), Len(text) > c.ChunkSize,
         \A i \in 1 .. Len(text) : text[i] = <<p, i>>
  PROVE  \E K, from, upTo :
           Windows(c, p, Len(text), SplitBySize(c, text), K, from, upTo)
PROOF
<1> DEFINE L == Len(text)
           Z == c.ChunkSize
           V == c.ChunkOverlap
           step == Z - V
           Q == (L - Z + step - 1) \div step
           K == 1 + Q
           at(k) == (k - 1) * step + Z
           w == [k \in 1 .. K |->
                   SubSeq(text, (k - 1) * step + 1, IF at(k) > L THEN L ELSE at(k))]
           from == [k \in 1 .. K |-> (k - 1) * step]
           upTo == [k \in 1 .. K |-> IF at(k) > L THEN L ELSE at(k)]
<1>1. w = SplitBySize(c, text)
  BY DEF SplitBySize
<1>2. /\ L \in Nat /\ Z \in Nat \ {0} /\ V \in Nat \ {0} /\ step \in Nat \ {0}
      /\ V < Z /\ Z < L /\ Z = V + step
  BY LenProperties DEF Chunkers
<1>3. \A i \in 1 .. L : text[i] \in Rune /\ text[i] = <<p, i>>
  BY ElementOfSeq
<1> HIDE DEF L, Z, V, step
<1>4. Q \in Nat /\ Q * step <= L - Z + step - 1 /\ L - Z + step - 1 < Q * step + step
  <2>1. L - Z + step - 1 \in Nat
    BY <1>2
  <2> QED  BY <1>2, <2>1, Quotient
<1> HIDE DEF Q
<1>5. Q # 0
  <2>1. 0 * step + step = step
    BY <1>2
  <2> QED  BY <1>2, <1>4, <2>1
<1>6. K \in Nat \ {0} /\ K = Q + 1 /\ Q \in Nat \ {0}
  BY <1>4, <1>5
<1>7. ASSUME NEW k \in 1 .. K
      PROVE  /\ from[k] \in Nat /\ from[k] < L /\ at(k) = from[k] + Z
             /\ (k # K => from[k] + Z < L) /\ (k = K => L <= from[k] + Z)
             /\ (k = 1 => from[k] = 0)
  <2>1. PICK j \in Nat : j = k - 1
    BY <1>6
  <2>2. from[k] = j * step /\ at(k) = j * step + Z
    BY <2>1
  <2>3. j * step \in Nat
    BY <1>2, ProductNat
  <2>4. k = 1 => j * step = 0
    BY <1>2, <2>1
  <2>5. k = K => L <= j * step + Z
    <3>1. k = K => j = Q
      BY <1>6, <2>1
    <3>2. L <= Q * step + Z
      <4>1. Q * step \in Nat
        BY <1>2, <1>6, ProductNat
      <4> QED  BY <1>2, <1>4, <4>1
    <3> QED  BY <3>1, <3>2
  <2>6. k # K => j * step + Z < L
    <3> SUFFICES ASSUME k # K PROVE j * step + Z < L
      OBVIOUS
    <3>1. j + 1 <= Q /\ j + 1 \in Nat
      BY <1>6, <2>1
    <3>2. (j + 1) * step <= Q * step
      BY <1>2, <1>6, <3>1, ProductMonotone
    <3>3. (j + 1) * step = j * step + step
      BY <1>2, ProductNext
    <3>4. Q * step \in Nat
      BY <1>2, <1>6, ProductNat
    <3> QED  BY <1>2, <1>4, <2>3, <3>2, <3>3, <3>4
  <2>7. j * step < L
    <3>1. CASE k # K
      BY <1>2, <2>3, <2>6, <3>1
    <3>2. CASE k = K
      <4>1. j = Q
        BY <1>6, <2>1, <3>2
      <4>2. Q * step \in Nat
        BY <1>2, <1>6, ProductNat
      <4> QED  BY <1>2, <1>4, <4>1, <4>2
    <3> QED  BY <3>1, <3>2
  <2> QED  BY <2>2, <2>3, <2>4, <2>5, <2>6, <2>7
<1>8. \A k \in 1 .. K : upTo[k] = IF k = K THEN L ELSE from[k] + Z
  <2> SUFFICES ASSUME NEW k \in 1 .. K PROVE upTo[k] = IF k = K THEN L ELSE from[k] + Z
    OBVIOUS
  <2>1. upTo[k] = IF at(k) > L THEN L ELSE at(k)
    OBVIOUS
  <2>2. /\ from[k] \in Nat /\ at(k) = from[k] + Z
        /\ (k # K => from[k] + Z < L) /\ (k = K => L <= from[k] + Z)
    BY <1>7
  <2>3. PICK f, u : f = from[k] /\ u = at(k)
    OBVIOUS
  <2>4. /\ f \in Nat /\ u = f + Z /\ (k # K => u < L) /\ (k = K => L <= u)
    BY <2>2, <2>3
  <2>5. upTo[k] = IF u > L THEN L ELSE u
    BY <2>1, <2>3
  <2> HIDE DEF from, upTo, at, K
  <2>6. CASE k = K
    BY <1>2, <2>4, <2>5, <2>6
  <2>7. CASE k # K
    <3>1. upTo[k] = u
      BY <1>2, <2>4, <2>5, <2>7
    <3> QED  BY <2>3, <2>4, <2>7, <3>1
  <2> QED  BY <2>6, <2>7
<1>9. \A k \in 2 .. K : from[k] = from[k - 1] + step
  <2> SUFFICES ASSUME NEW k \in 2 .. K PROVE from[k] = from[k - 1] + step
    OBVIOUS
  <2>1. PICK j \in Nat : k = j + 2
    <3>1. k - 2 \in Nat /\ k = (k - 2) + 2
      BY <1>6
    <3> QED  BY <3>1
  <2>2. from[k] = (j + 1) * step /\ from[k - 1] = j * step
    <3>1. k - 1 = j + 1 /\ (k - 1) - 1 = j /\ k - 1 \in 1 .. K /\ k \in 1 .. K
      BY <1>6, <2>1
    <3> QED  BY <3>1
  <2>3. (j + 1) * step = j * step + step
    BY <1>2, ProductNext
  <2> QED  BY <2>2, <2>3
<1>10. \A k \in 1 .. K : w[k] = SubSeq(text, from[k] + 1, upTo[k])
  OBVIOUS
<1>11. DOMAIN w = 1 .. K /\ DOMAIN from = 1 .. K /\ DOMAIN upTo = 1 .. K
       /\ w = [k \in 1 .. K |-> w[k]] /\ from = [k \in 1 .. K |-> from[k]]
       /\ upTo = [k \in 1 .. K |-> upTo[k]]
  OBVIOUS
<1> HIDE DEF w, from, upTo, K, at
<1>12. \A k \in 1 .. K : /\ from[k] \in Nat /\ upTo[k] \in Nat /\ from[k] < upTo[k]
                          /\ upTo[k] - from[k] <= Z /\ upTo[k] <= L
  BY <1>2, <1>7, <1>8
<1>13. ASSUME NEW k \in 1 .. K
       PROVE  /\ w[k] \in Seq(Rune) /\ Len(w[k]) = upTo[k] - from[k]
              /\ \A i \in 1 .. Len(w[k]) : w[k][i] = <<p, from[k] + i>>
  <2>1. PICK m, n : m = from[k] + 1 /\ n = upTo[k]
    OBVIOUS
  <2>2. m \in 1 .. L /\ n \in m .. L /\ m \in Int /\ n \in Int /\ n - m + 1 = upTo[k] - from[k]
    <3>1. PICK f, u : f = from[k] /\ u = upTo[k]
      OBVIOUS
    <3>2. f \in Nat /\ u \in Nat /\ f < u /\ u <= L /\ m = f + 1 /\ n = u
      BY <1>12, <2>1, <3>1
    <3> QED  BY <1>2, <3>1, <3>2
  <2>3. \A i \in m .. n : text[i] \in Rune
    BY <1>2, <1>3, <2>2
  <2>4. /\ SubSeq(text, m, n) \in Seq(Rune) /\ Len(SubSeq(text, m, n)) = n - m + 1
        /\ \A i \in 1 .. n - m + 1 : SubSeq(text, m, n)[i] = text[m + i - 1]
    BY <2>2, <2>3, SubSeqProperties
  <2>5. w[k] = SubSeq(text, m, n)
    BY <1>10, <2>1
  <2>6. \A i \in 1 .. n - m + 1 : w[k][i] = <<p, from[k] + i>>
    <3> SUFFICES ASSUME NEW i \in 1 .. n - m + 1 PROVE w[k][i] = <<p, from[k] + i>>
      OBVIOUS
    <3>1. w[k][i] = text[m + i - 1]
      BY <2>4, <2>5
    <3>2. m + i - 1 = from[k] + i /\ m + i - 1 \in 1 .. L
      <4>1. PICK f \in Nat : f = from[k]
        BY <1>12
      <4>2. m + i - 1 = f + i
        BY <2>1, <2>2, <4>1
      <4> QED  BY <1>2, <2>2, <4>1, <4>2
    <3>3. text[m + i - 1] = <<p, m + i - 1>>
      BY <1>3, <3>2
    <3> QED  BY <3>1, <3>2, <3>3
  <2> QED  BY <2>2, <2>4, <2>5, <2>6
<1>14. w \in Seq(Seq(Rune)) /\ Len(w) = K
  <2>1. w \in [1 .. K -> Seq(Rune)]
    BY <1>11, <1>13
  <2> QED  BY <1>6, <2>1, FunctionIsSeq
<1>15. from \in [1 .. K -> Nat] /\ upTo \in [1 .. K -> Nat]
  BY <1>11, <1>12
<1>16. from[1] = 0 /\ upTo[K] = L
  BY <1>6, <1>7, <1>8
<1>17. ASSUME NEW k \in 2 .. K
       PROVE  /\ upTo[k - 1] = from[k - 1] + Z
              /\ from[k] = upTo[k - 1] - V
              /\ upTo[k - 1] < upTo[k]
  <2>1. k - 1 \in 1 .. K /\ k - 1 # K /\ k \in 1 .. K
    BY <1>6
  <2>2. upTo[k - 1] = from[k - 1] + Z /\ from[k] = from[k - 1] + step
    BY <1>8, <1>9, <2>1
  <2>3. from[k - 1] \in Nat /\ from[k - 1] + Z < L
    BY <1>7, <2>1
  <2>4. upTo[k] = L \/ upTo[k] = from[k] + Z
    BY <1>8, <2>1
  <2> QED  BY <1>2, <2>2, <2>3, <2>4
<1>18. Windows(c, p, L, w, K, from, upTo)
  BY <1>6, <1>12, <1>13, <1>14, <1>15, <1>16, <1>17 DEF Windows, Z, V
<1> QED  BY <1>1, <1>18 DEF L

LEMMA TextIs ==
  ASSUME NEW S, NEW text \in Seq(S)
  PROVE  /\ \A r : r \in InText(text) <=> \E i \in 1 .. Len(text) : r = text[i]
         /\ Len(text) \in Nat /\ (text # <<>> <=> Len(text) # 0) /\ InText(text) \subseteq S
PROOF
<1>1. Len(text) \in Nat /\ DOMAIN text = 1 .. Len(text) /\ text \in [1 .. Len(text) -> S]
  BY LenProperties
<1>2. text # <<>> => Len(text) # 0
  BY EmptySeq
<1>3. text = <<>> => Len(text) = 0
  OBVIOUS
<1> QED  BY <1>1, <1>2, <1>3 DEF InText

LEMMA SaidIs ==
  ASSUME NEW chunks, NEW k
  PROVE  \A r : r \in SaidBefore(chunks, k) <=> \E j \in 1 .. k - 1 : r \in InText(chunks[j])
BY DEF SaidBefore

LEMMA SaidNext ==
  ASSUME NEW chunks, NEW k \in Nat \ {0}
  PROVE  SaidBefore(chunks, k + 1) = SaidBefore(chunks, k) \cup InText(chunks[k])
PROOF
<1>1. \A j : j \in 1 .. (k + 1) - 1 <=> j \in 1 .. k - 1 \/ j = k
  OBVIOUS
<1> QED  BY <1>1, SaidIs

RunesTo(p, n) == {<<p, i>> : i \in 1 .. n}

LEMMA WindowText ==
  ASSUME NEW c \in Chunkers, NEW p \in Nat, NEW L \in Nat, NEW w, NEW K, NEW from, NEW upTo,
         Windows(c, p, L, w, K, from, upTo)
  PROVE  \A k \in 1 .. K :
           /\ \A r : r \in InText(w[k]) <=> \E i \in from[k] + 1 .. upTo[k] : r = <<p, i>>
           /\ SaidBefore(w, k + 1) = RunesTo(p, upTo[k])
PROOF
<1>1. /\ K \in Nat \ {0} /\ from \in [1 .. K -> Nat] /\ upTo \in [1 .. K -> Nat]
      /\ w \in Seq(Seq(Rune)) /\ Len(w) = K
      /\ from[1] = 0
  BY DEF Windows
<1>2. ASSUME NEW k \in 1 .. K
      PROVE  \A r : r \in InText(w[k]) <=> \E i \in from[k] + 1 .. upTo[k] : r = <<p, i>>
  <2>1. w[k] \in Seq(Rune)
    BY <1>1, ElementOfSeq
  <2>2. PICK f, u : f = from[k] /\ u = upTo[k]
    OBVIOUS
  <2>3. /\ f \in Nat /\ u \in Nat /\ f < u /\ Len(w[k]) = u - f
        /\ \A i \in 1 .. Len(w[k]) : w[k][i] = <<p, f + i>>
    BY <1>1, <2>2 DEF Windows
  <2>4. \A r : r \in InText(w[k]) <=> \E i \in 1 .. u - f : r = <<p, f + i>>
    <3>1. PICK t : t = w[k]
      OBVIOUS
    <3>2. t \in Seq(Rune)
      BY <2>1, <3>1
    <3>3. \A r : r \in InText(t) <=> \E i \in 1 .. Len(t) : r = t[i]
      BY <3>2, TextIs
    <3>4. Len(t) = u - f /\ \A i \in 1 .. u - f : t[i] = <<p, f + i>>
      BY <2>3, <3>1
    <3>5. ASSUME NEW r \in InText(t) PROVE \E i \in 1 .. u - f : r = <<p, f + i>>
      <4>1. PICK i \in 1 .. Len(t) : r = t[i]
        BY <3>3
      <4>2. i \in 1 .. u - f
        BY <3>4
      <4>3. r = <<p, f + i>>
        BY <3>4, <4>1, <4>2
      <4> QED  BY <4>2, <4>3
    <3>6. ASSUME NEW i \in 1 .. u - f PROVE <<p, f + i>> \in InText(t)
      <4>1. i \in 1 .. Len(t) /\ t[i] = <<p, f + i>>
        BY <3>4
      <4> QED  BY <3>3, <4>1
    <3> QED  BY <3>1, <3>5, <3>6
  <2>5. ASSUME NEW i \in 1 .. u - f PROVE f + i \in f + 1 .. u
    BY <2>3
  <2>6. ASSUME NEW i \in f + 1 .. u PROVE i - f \in 1 .. u - f /\ f + (i - f) = i
    BY <2>3
  <2>7. \A r : (\E i \in 1 .. u - f : r = <<p, f + i>>) <=> \E i \in f + 1 .. u : r = <<p, i>>
    BY <2>5, <2>6
  <2> QED  BY <2>2, <2>4, <2>7
<1> DEFINE G == {k \in 0 .. K : k # 0 => SaidBefore(w, k + 1) = RunesTo(p, upTo[k])}
<1>3. 0 \in G
  BY <1>1
<1>4. ASSUME NEW k \in 1 .. K, k - 1 \in G PROVE k \in G
  <2>1. SaidBefore(w, k + 1) = SaidBefore(w, k) \cup InText(w[k])
    <3>1. k \in Nat \ {0}
      BY <1>1
    <3> QED  BY <3>1, SaidNext
  <2>2. PICK f, u : f = from[k] /\ u = upTo[k]
    OBVIOUS
  <2>3. f \in Nat /\ u \in Nat /\ f < u
    BY <1>1, <2>2 DEF Windows
  <2>4. \A r : r \in InText(w[k]) <=> \E i \in f + 1 .. u : r = <<p, i>>
    BY <1>2, <2>2
  <2>5. CASE k = 1
    <3>1. SaidBefore(w, k) = {}
      BY <2>5 DEF SaidBefore
    <3>2. f = 0
      BY <1>1, <2>2, <2>5
    <3>3. SaidBefore(w, k + 1) = RunesTo(p, u)
      BY <2>1, <2>4, <3>1, <3>2 DEF RunesTo
    <3> QED  BY <1>1, <2>2, <3>3
  <2>6. CASE k # 1
    <3>1. k \in 2 .. K /\ k - 1 \in 1 .. K /\ (k - 1) + 1 = k /\ k - 1 # 0
      BY <1>1, <2>6
    <3>2. PICK v : v = upTo[k - 1]
      OBVIOUS
    <3>3. v \in Nat /\ f = v - c.ChunkOverlap /\ v < u
      BY <1>1, <2>2, <3>1, <3>2 DEF Windows
    <3>4. SaidBefore(w, k) = RunesTo(p, v)
      BY <1>4, <3>1, <3>2
    <3>5. c.ChunkOverlap \in Nat
      BY DEF Chunkers
    <3>6. \A i : i \in 1 .. u <=> i \in 1 .. v \/ i \in f + 1 .. u
      BY <2>3, <3>3, <3>5
    <3>7. SaidBefore(w, k + 1) = RunesTo(p, u)
      BY <2>1, <2>4, <3>4, <3>6 DEF RunesTo
    <3> QED  BY <1>1, <2>2, <3>7
  <2> QED  BY <2>5, <2>6
<1>5. \A k \in 0 .. K : k \in G
  <2> HIDE DEF G
  <2>1. Climbs(G, K)
    BY <1>3, <1>4 DEF Climbs
  <2> QED  BY <1>1, <2>1, UpTo
<1>6. \A k \in 1 .. K : k \in 0 .. K /\ k # 0
  BY <1>1
<1> QED  BY <1>2, <1>5, <1>6

(***************************************************************************)
(* The loop over the paragraphs.                                           *)
(***************************************************************************)

Building == [chunks : Seq(Seq(Rune)), current : Seq(Rune)]

Flushes(c, doc, made, p) ==
  /\ BytesOf(doc, made.current) + Len(Paragraph(doc, p)) + 2 > c.ChunkSize
  /\ made.current # <<>>

Flushed(c, doc, made, p) ==
  IF Flushes(c, doc, made, p)
  THEN [chunks |-> Append(made.chunks, made.current), current |-> GetTail(c, made.current)]
  ELSE made

AllOf(made) ==
  IF made.current = <<>> THEN made.chunks ELSE Append(made.chunks, made.current)

Joined(current, para) ==
  IF current = <<>> THEN para ELSE current \o <<Gap, Gap>> \o para

LEMMA AddParagraphValue ==
  ASSUME NEW c, NEW doc, NEW made, NEW p, Len(Paragraph(doc, p)) \in Nat, c.ChunkSize \in Nat
  PROVE  AddParagraph(c, doc, made, p) =
           IF Paragraph(doc, p) = <<>> THEN made
           ELSE IF Len(Paragraph(doc, p)) > c.ChunkSize
                THEN [chunks |-> AllOf(Flushed(c, doc, made, p))
                                   \o SplitBySize(c, Paragraph(doc, p)),
                      current |-> <<>>]
                ELSE [Flushed(c, doc, made, p) EXCEPT
                        !.current = Joined(@, Paragraph(doc, p))]
PROOF
<1>1. CASE Paragraph(doc, p) = <<>>
  BY <1>1 DEF AddParagraph
<1>2. CASE Paragraph(doc, p) # <<>> /\ Len(Paragraph(doc, p)) > c.ChunkSize
  BY <1>2 DEF AddParagraph, AllOf, Flushed, Flushes
<1>3. CASE Paragraph(doc, p) # <<>> /\ Len(Paragraph(doc, p)) <= c.ChunkSize
  BY <1>3 DEF AddParagraph, Joined, Flushed, Flushes
<1> QED  BY <1>1, <1>2, <1>3

LEMMA GapIsRune == Gap \in Rune /\ <<Gap, Gap>> \in Seq(Rune) /\ Len(<<Gap, Gap>>) = 2
                   /\ InText(<<Gap, Gap>>) = {Gap}
PROOF
<1>1. Gap \in Rune
  BY DEF Gap, Rune
<1> DEFINE g == <<Gap, Gap>>
<1>2. g \in Seq(Rune) /\ Len(g) = 2 /\ g[1] = Gap /\ g[2] = Gap
  BY <1>1
<1> HIDE DEF g
<1>3. InText(g) = {Gap}
  BY <1>2, TextIs
<1> QED  BY <1>1, <1>2, <1>3 DEF g

LEMMA ConcatIs ==
  ASSUME NEW S, NEW a \in Seq(S), NEW b \in Seq(S)
  PROVE  /\ a \o b \in Seq(S) /\ Len(a \o b) = Len(a) + Len(b)
         /\ InText(a \o b) = InText(a) \cup InText(b)
         /\ \A i \in 1 .. Len(a) : (a \o b)[i] = a[i]
         /\ \A i \in 1 .. Len(b) : (a \o b)[Len(a) + i] = b[i]
PROOF
<1> DEFINE t == a \o b
<1>1. /\ t \in Seq(S) /\ Len(t) = Len(a) + Len(b)
      /\ \A i \in 1 .. Len(a) + Len(b) : t[i] = IF i <= Len(a) THEN a[i] ELSE b[i - Len(a)]
  BY ConcatProperties
<1>2. Len(a) \in Nat /\ Len(b) \in Nat
  BY LenProperties
<1> HIDE DEF t
<1>3. \A i \in 1 .. Len(a) : t[i] = a[i] /\ i \in 1 .. Len(t)
  BY <1>1, <1>2
<1>4. \A i \in 1 .. Len(b) : t[Len(a) + i] = b[i] /\ Len(a) + i \in 1 .. Len(t)
  <2> SUFFICES ASSUME NEW i \in 1 .. Len(b)
               PROVE  t[Len(a) + i] = b[i] /\ Len(a) + i \in 1 .. Len(t)
    OBVIOUS
  <2>1. PICK m \in 1 .. Len(t) : m = Len(a) + i
    BY <1>1, <1>2
  <2>2. ~ (m <= Len(a)) /\ m - Len(a) = i
    BY <1>2, <2>1
  <2>3. t[m] = b[m - Len(a)]
    BY <1>1, <2>2
  <2> QED  BY <2>1, <2>2, <2>3
<1>5. \A i \in 1 .. Len(t) : (i \in 1 .. Len(a) /\ t[i] = a[i])
                            \/ (i - Len(a) \in 1 .. Len(b) /\ t[i] = b[i - Len(a)])
  BY <1>1, <1>2
<1>6. \A r : r \in InText(t) <=> \E i \in 1 .. Len(t) : r = t[i]
  BY <1>1, TextIs
<1>7. \A r : r \in InText(a) <=> \E i \in 1 .. Len(a) : r = a[i]
  BY TextIs
<1>8. \A r : r \in InText(b) <=> \E i \in 1 .. Len(b) : r = b[i]
  BY TextIs
<1>9. InText(t) \subseteq InText(a) \cup InText(b)
  BY <1>5, <1>6, <1>7, <1>8
<1>10. InText(a) \subseteq InText(t)
  BY <1>3, <1>6, <1>7
<1>11. InText(b) \subseteq InText(t)
  BY <1>4, <1>6, <1>8
<1> QED  BY <1>1, <1>3, <1>4, <1>9, <1>10, <1>11 DEF t

LEMMA JoinedIs ==
  ASSUME NEW current \in Seq(Rune), NEW para \in Seq(Rune), para # <<>>
  PROVE  LET t == Joined(current, para) IN
         /\ t \in Seq(Rune) /\ t # <<>>
         /\ current = <<>> => t = para
         /\ current # <<>> => /\ Len(t) = Len(current) + 2 + Len(para)
                              /\ InText(t) = InText(current) \cup {Gap} \cup InText(para)
PROOF
<1>1. CASE current = <<>>
  BY <1>1 DEF Joined
<1>2. CASE current # <<>>
  <2> DEFINE g == <<Gap, Gap>>
             u == current \o g
             t == u \o para
  <2>1. g \in Seq(Rune) /\ Len(g) = 2 /\ InText(g) = {Gap}
    BY GapIsRune
  <2>2. t = Joined(current, para)
    BY <1>2 DEF Joined
  <2> HIDE DEF g
  <2>3. u \in Seq(Rune) /\ Len(u) = Len(current) + 2 /\ InText(u) = InText(current) \cup {Gap}
    <3>1. u \in Seq(Rune) /\ Len(u) = Len(current) + Len(g)
          /\ InText(u) = InText(current) \cup InText(g)
      BY <2>1, ConcatIs
    <3> HIDE DEF u
    <3> QED  BY <2>1, <3>1
  <2> HIDE DEF u
  <2>4. t \in Seq(Rune) /\ Len(t) = Len(u) + Len(para) /\ InText(t) = InText(u) \cup InText(para)
    BY <2>3, ConcatIs
  <2> HIDE DEF t
  <2>5. Len(current) \in Nat /\ Len(para) \in Nat
    BY LenProperties
  <2>6. t # <<>>
    BY <2>3, <2>4, <2>5, TextIs
  <2> QED  BY <1>2, <2>2, <2>3, <2>4, <2>5, <2>6
<1> QED  BY <1>1, <1>2

LEMMA FlushedTyped ==
  ASSUME NEW c \in Chunkers, NEW doc, NEW made \in Building, NEW p
  PROVE  Flushed(c, doc, made, p) \in Building
PROOF
<1>1. made.chunks \in Seq(Seq(Rune)) /\ made.current \in Seq(Rune)
  BY DEF Building
<1>2. CASE Flushes(c, doc, made, p)
  <2>1. made.current # <<>>
    BY <1>2 DEF Flushes
  <2>2. GetTail(c, made.current) \in Seq(Rune)
    BY <1>1, <2>1, TailIs
  <2>3. Append(made.chunks, made.current) \in Seq(Seq(Rune))
    BY <1>1, AppendProperties
  <2> QED  BY <1>2, <2>2, <2>3 DEF Flushed, Building
<1>3. CASE ~ Flushes(c, doc, made, p)
  BY <1>3 DEF Flushed
<1> QED  BY <1>2, <1>3

LEMMA AllOfTyped ==
  ASSUME NEW made \in Building
  PROVE  AllOf(made) \in Seq(Seq(Rune))
PROOF
<1>1. made.chunks \in Seq(Seq(Rune)) /\ made.current \in Seq(Rune)
  BY DEF Building
<1>2. Append(made.chunks, made.current) \in Seq(Seq(Rune))
  BY <1>1, AppendProperties
<1> QED  BY <1>1, <1>2 DEF AllOf

\* The three turns of the loop: a blank paragraph, a long one and a short one.
LEMMA AddParagraphCases ==
  ASSUME NEW c \in Chunkers, NEW doc \in Documents, NEW made \in Building,
         NEW p \in DOMAIN doc
  PROVE  LET para == Paragraph(doc, p)
             then == Flushed(c, doc, made, p)
             next == AddParagraph(c, doc, made, p)
         IN /\ doc[p].runes = 0 => next = made
            /\ doc[p].runes # 0 /\ doc[p].runes > c.ChunkSize =>
                 next = [chunks |-> AllOf(then) \o SplitBySize(c, para), current |-> <<>>]
            /\ doc[p].runes # 0 /\ ~ (doc[p].runes > c.ChunkSize) =>
                 next = [chunks |-> then.chunks, current |-> Joined(then.current, para)]
PROOF
<1>1. /\ Paragraph(doc, p) \in Seq(Rune) /\ Len(Paragraph(doc, p)) = doc[p].runes
      /\ doc[p].runes \in Nat
  BY ParagraphIs
<1>2. Paragraph(doc, p) # <<>> <=> doc[p].runes # 0
  BY <1>1, TextIs
<1>3. c.ChunkSize \in Nat
  BY DEF Chunkers
<1> DEFINE then == Flushed(c, doc, made, p)
<1>4. [then EXCEPT !.current = Joined(@, Paragraph(doc, p))]
        = [chunks |-> then.chunks, current |-> Joined(then.current, Paragraph(doc, p))]
  <2>1. then \in Building
    BY FlushedTyped
  <2> HIDE DEF then
  <2> QED  BY <2>1 DEF Building
<1> HIDE DEF then
<1>5. AddParagraph(c, doc, made, p) =
           IF Paragraph(doc, p) = <<>> THEN made
           ELSE IF Len(Paragraph(doc, p)) > c.ChunkSize
                THEN [chunks |-> AllOf(then) \o SplitBySize(c, Paragraph(doc, p)),
                      current |-> <<>>]
                ELSE [then EXCEPT !.current = Joined(@, Paragraph(doc, p))]
  BY <1>1, <1>3, AddParagraphValue DEF then
<1>6. doc[p].runes = 0 => AddParagraph(c, doc, made, p) = made
  BY <1>2, <1>5
<1>7. doc[p].runes # 0 /\ doc[p].runes > c.ChunkSize =>
        AddParagraph(c, doc, made, p) =
          [chunks |-> AllOf(then) \o SplitBySize(c, Paragraph(doc, p)), current |-> <<>>]
  BY <1>1, <1>2, <1>5
<1>8. doc[p].runes # 0 /\ ~ (doc[p].runes > c.ChunkSize) =>
        AddParagraph(c, doc, made, p)
          = [chunks |-> then.chunks, current |-> Joined(then.current, Paragraph(doc, p))]
  BY <1>1, <1>2, <1>4, <1>5
<1> QED  BY <1>6, <1>7, <1>8 DEF then

LEMMA LongWindows ==
  ASSUME NEW c \in Chunkers, NEW doc \in Documents, Splittable(c, doc),
         NEW p \in DOMAIN doc, doc[p].runes > c.ChunkSize
  PROVE  /\ c.ChunkOverlap < c.ChunkSize
         /\ \E K, from, upTo :
              Windows(c, p, doc[p].runes, SplitBySize(c, Paragraph(doc, p)), K, from, upTo)
PROOF
<1>1. /\ Paragraph(doc, p) \in Seq(Rune) /\ Len(Paragraph(doc, p)) = doc[p].runes
      /\ \A i \in 1 .. doc[p].runes : Paragraph(doc, p)[i] = <<p, i>>
      /\ doc[p].runes \in Nat /\ p \in Nat
  BY ParagraphIs
<1>2. c.ChunkOverlap < c.ChunkSize
  <2>1. c.ChunkSize \in Nat /\ ~ (doc[p].runes <= c.ChunkSize)
    BY <1>1 DEF Chunkers
  <2> QED  BY <2>1 DEF Splittable
<1>3. PICK text : text = Paragraph(doc, p)
  OBVIOUS
<1>4. /\ text \in Seq(Rune) /\ Len(text) > c.ChunkSize /\ Len(text) = doc[p].runes
      /\ \A i \in 1 .. Len(text) : text[i] = <<p, i>>
  BY <1>1, <1>3
<1>5. \E K, from, upTo :
        Windows(c, p, Len(text), SplitBySize(c, text), K, from, upTo)
  BY <1>1, <1>2, <1>4, SplitWindows
<1> QED  BY <1>2, <1>3, <1>4, <1>5

LEMMA AddParagraphTyped ==
  ASSUME NEW c \in Chunkers, NEW doc \in Documents, Splittable(c, doc),
         NEW made \in Building, NEW p \in DOMAIN doc
  PROVE  AddParagraph(c, doc, made, p) \in Building
PROOF
<1> DEFINE para == Paragraph(doc, p)
           then == Flushed(c, doc, made, p)
           next == AddParagraph(c, doc, made, p)
<1>1. then \in Building
  BY FlushedTyped
<1>2. then.chunks \in Seq(Seq(Rune)) /\ then.current \in Seq(Rune)
  <2> HIDE DEF then
  <2> QED  BY <1>1 DEF Building
<1>3. /\ para \in Seq(Rune) /\ Len(para) = doc[p].runes /\ doc[p].runes \in Nat
  BY ParagraphIs
<1>4. /\ doc[p].runes = 0 => next = made
      /\ doc[p].runes # 0 /\ doc[p].runes > c.ChunkSize =>
           next = [chunks |-> AllOf(then) \o SplitBySize(c, para), current |-> <<>>]
      /\ doc[p].runes # 0 /\ ~ (doc[p].runes > c.ChunkSize) =>
           next = [chunks |-> then.chunks, current |-> Joined(then.current, para)]
  BY AddParagraphCases
<1> HIDE DEF then, next
<1>5. CASE doc[p].runes = 0
  BY <1>4, <1>5 DEF next
<1>6. CASE doc[p].runes # 0 /\ doc[p].runes > c.ChunkSize
  <2>1. SplitBySize(c, para) \in Seq(Seq(Rune))
    BY <1>6, LongWindows DEF Windows
  <2>2. AllOf(then) \in Seq(Seq(Rune))
    BY <1>1, AllOfTyped
  <2>3. AllOf(then) \o SplitBySize(c, para) \in Seq(Seq(Rune))
    BY <2>1, <2>2, ConcatProperties
  <2>4. <<>> \in Seq(Rune)
    OBVIOUS
  <2>5. next \in Building
    <3>1. PICK x \in Seq(Seq(Rune)) : x = AllOf(then) \o SplitBySize(c, para)
      BY <2>3
    <3>2. next = [chunks |-> x, current |-> <<>>]
      BY <1>4, <1>6, <3>1
    <3> QED  BY <2>4, <3>2 DEF Building
  <2> QED  BY <2>5 DEF next
<1>7. CASE doc[p].runes # 0 /\ ~ (doc[p].runes > c.ChunkSize)
  <2>1. para # <<>>
    BY <1>3, <1>7, TextIs
  <2>2. Joined(then.current, para) \in Seq(Rune)
    BY <1>2, <1>3, <2>1, JoinedIs
  <2>3. next \in Building
    BY <1>2, <1>4, <1>7, <2>2 DEF Building
  <2> QED  BY <2>3 DEF next
<1> QED  BY <1>5, <1>6, <1>7

NoChunks == [chunks |-> <<>>, current |-> <<>>]

IsBuilt(it, c, doc) ==
  it = [s \in SUBSET DOMAIN [p \in DOMAIN doc |-> p] |->
          IF s = {} THEN NoChunks
          ELSE AddParagraph(c, doc, it[s \ {Max(s)}], [p \in DOMAIN doc |-> p][Max(s)])]

Built(c, doc) ==
  (CHOOSE it : IsBuilt(it, c, doc))[DOMAIN [p \in DOMAIN doc |-> p]]

LEMMA ChunkFold ==
  ASSUME NEW c, NEW doc
  PROVE  ChunkDocument(c, doc) = AllOf(Built(c, doc))
BY DEF ChunkDocument, FoldLeft, MapThenFoldSet, IsBuilt, Built, NoChunks, AllOf

LEMMA ChunkSteps ==
  ASSUME NEW c \in Chunkers, NEW doc \in Documents, Splittable(c, doc)
  PROVE  \E h : /\ h[0] = NoChunks /\ h[Len(doc)] = Built(c, doc)
                /\ \A k \in 1 .. Len(doc) : h[k] = AddParagraph(c, doc, h[k - 1], k)
PROOF
<1> DEFINE N == Len(doc)
           T == Building
           step == [t \in T |-> [k \in 1 .. N |-> AddParagraph(c, doc, t, k)]]
<1>1. N \in Nat /\ DOMAIN doc = 1 .. N
  BY LenProperties DEF Documents
<1> HIDE DEF N
<1>2. step \in [T -> [1 .. N -> T]]
  BY <1>1, AddParagraphTyped
<1>3. NoChunks \in T
  BY DEF NoChunks, Building
<1> HIDE DEF T
<1>4. PICK it \in [SUBSET (1 .. N) -> T] : IsIter(it, step, NoChunks, N)
  <2> HIDE DEF step
  <2> QED  BY <1>1, <1>2, <1>3, IterExists
<1>5. DOMAIN [p \in DOMAIN doc |-> p] = 1 .. N
      /\ \A k \in 1 .. N : [p \in DOMAIN doc |-> p][k] = k
  BY <1>1
<1>6. \A s \in SUBSET (1 .. N) : s # {} => Max(s) \in 1 .. N
  BY <1>1, MaxIn
<1>7. IsBuilt(it, c, doc)
  <2>1. \A s \in SUBSET (1 .. N) : s # {} =>
          step[it[s \ {Max(s)}]][Max(s)]
            = AddParagraph(c, doc, it[s \ {Max(s)}], [p \in DOMAIN doc |-> p][Max(s)])
    <3> SUFFICES ASSUME NEW s \in SUBSET (1 .. N), s # {}
                 PROVE  step[it[s \ {Max(s)}]][Max(s)]
                   = AddParagraph(c, doc, it[s \ {Max(s)}], [p \in DOMAIN doc |-> p][Max(s)])
      OBVIOUS
    <3>1. Max(s) \in 1 .. N /\ [p \in DOMAIN doc |-> p][Max(s)] = Max(s)
      BY <1>5, <1>6
    <3>2. it[s \ {Max(s)}] \in T
      OBVIOUS
    <3> QED  BY <3>1, <3>2
  <2> HIDE DEF step
  <2> QED  BY <1>4, <1>5, <2>1 DEF IsIter, IsBuilt
<1>8. PICK g : g = (CHOOSE i : IsBuilt(i, c, doc))
  OBVIOUS
<1>9. IsBuilt(g, c, doc)
  BY <1>7, <1>8
<1> DEFINE h == [k \in 0 .. N |-> g[1 .. k]]
<1>10. h[0] = NoChunks
  <2>1. h[0] = g[{}]
    BY <1>1
  <2>2. g[{}] = NoChunks
    BY <1>9 DEF IsBuilt
  <2> QED  BY <2>1, <2>2
<1>11. h[N] = Built(c, doc)
  <2>1. h[N] = g[1 .. N]
    BY <1>1
  <2>2. Built(c, doc) = g[DOMAIN [p \in DOMAIN doc |-> p]]
    BY <1>8 DEF Built
  <2> QED  BY <1>5, <2>1, <2>2
<1>12. \A k \in 1 .. N : h[k] = AddParagraph(c, doc, h[k - 1], k)
  <2> SUFFICES ASSUME NEW k \in 1 .. N PROVE h[k] = AddParagraph(c, doc, h[k - 1], k)
    OBVIOUS
  <2>1. h[k] = g[1 .. k] /\ h[k - 1] = g[1 .. k - 1]
    BY <1>1
  <2>2. /\ 1 .. k \in SUBSET (1 .. N) /\ 1 .. k # {}
        /\ Max(1 .. k) = k /\ (1 .. k) \ {Max(1 .. k)} = 1 .. k - 1
    BY <1>1, Shorter
  <2>3. g[1 .. k] = AddParagraph(c, doc, g[(1 .. k) \ {Max(1 .. k)}],
                                 [p \in DOMAIN doc |-> p][Max(1 .. k)])
    BY <1>5, <1>9, <2>2 DEF IsBuilt
  <2> HIDE DEF h
  <2> QED  BY <1>5, <2>1, <2>2, <2>3
<1> HIDE DEF h
<1> QED  BY <1>10, <1>11, <1>12 DEF N

(***************************************************************************)
(* What holds of every chunk.                                              *)
(***************************************************************************)

NewsOf(chunks, k) == InText(chunks[k]) \ (SaidBefore(chunks, k) \cup {Gap})

Follows(r, q) == r[1] > q[1] \/ (r[1] = q[1] /\ r[2] > q[2])

Fits(c, chunks, k) ==
  /\ Len(chunks[k]) \in 1 .. c.ChunkSize + c.ChunkOverlap + 2
  /\ Len(chunks[k]) > c.ChunkSize => k > 1 /\ Gap \in InText(chunks[k])

TextInOrder(chunks, k) ==
  \A r \in NewsOf(chunks, k), q \in SaidBefore(chunks, k) \ {Gap} : Follows(r, q)

NewsOrEcho(c, doc, chunks, k) == NewsOf(chunks, k) = {} <=> Echo(c, doc, chunks, k)

Overlaps(c, doc, chunks, k) ==
  k > 1 /\ Gap \notin InText(chunks[k]) \cup InText(chunks[k - 1])
  /\ chunks[k][1][2] > 1 /\ ~ Echo(c, doc, chunks, k) =>
    SubSeq(chunks[k], 1, c.ChunkOverlap) = GetTail(c, chunks[k - 1])

\* A rune comes with the first one of its paragraph, unless the paragraph is long or
\* the rune is in the tail of the chunk before.
Headed(c, doc, chunks, k) ==
  \A r \in InText(chunks[k]) \ {Gap} :
    \/ <<r[1], 1>> \in InText(chunks[k])
    \/ doc[r[1]].runes > c.ChunkSize
    \/ k > 1 /\ r \in InText(GetTail(c, chunks[k - 1]))

LEMMA AgreesParts ==
  ASSUME NEW c, NEW doc, NEW chunks, NEW k
  PROVE  ChunkAgrees(c, doc, chunks, k) <=>
           /\ Fits(c, chunks, k) /\ TextInOrder(chunks, k)
           /\ NewsOrEcho(c, doc, chunks, k) /\ Overlaps(c, doc, chunks, k)
BY DEF ChunkAgrees, Fits, TextInOrder, NewsOrEcho, Overlaps, NewsOf, Follows

ChunkGood(c, doc, chunks, k) ==
  /\ Fits(c, chunks, k) /\ TextInOrder(chunks, k) /\ NewsOrEcho(c, doc, chunks, k)
  /\ Overlaps(c, doc, chunks, k) /\ Headed(c, doc, chunks, k)

\* Chunks that are the same up to one have the same text before it.
LEMMA SaidSame ==
  ASSUME NEW a, NEW b, NEW k, \A j \in 1 .. k - 1 : a[j] = b[j]
  PROVE  SaidBefore(a, k) = SaidBefore(b, k)
PROOF
<1>1. ASSUME NEW r \in SaidBefore(a, k) PROVE r \in SaidBefore(b, k)
  <2>1. PICK j \in 1 .. k - 1 : r \in InText(a[j])
    BY SaidIs
  <2>2. r \in InText(b[j])
    BY <2>1
  <2> QED  BY <2>1, <2>2, SaidIs
<1>2. ASSUME NEW r \in SaidBefore(b, k) PROVE r \in SaidBefore(a, k)
  <2>1. PICK j \in 1 .. k - 1 : r \in InText(b[j])
    BY SaidIs
  <2>2. r \in InText(a[j])
    BY <2>1
  <2> QED  BY <2>1, <2>2, SaidIs
<1> QED  BY <1>1, <1>2

LEMMA TailSays ==
  ASSUME NEW c \in Chunkers, NEW S, NEW text \in Seq(S)
  PROVE  InText(GetTail(c, text)) \subseteq InText(text)
PROOF
<1>1. CASE text # <<>>
  BY <1>1, TailIs
<1>2. CASE text = <<>>
  <2>1. Len(text) = 0 /\ c.ChunkOverlap \in Nat
    BY <1>2 DEF Chunkers
  <2>2. GetTail(c, text) = SubSeq(text, 1, 0)
    BY <2>1 DEF GetTail
  <2>3. GetTail(c, text) = <<>>
    BY <2>2, SubSeqEmpty
  <2> QED  BY <1>2, <2>3
<1> QED  BY <1>1, <1>2

LEMMA EchoNoNews ==
  ASSUME NEW c \in Chunkers, NEW doc, NEW chunks \in Seq(Seq(Rune)), NEW k \in 1 .. Len(chunks),
         Echo(c, doc, chunks, k)
  PROVE  NewsOf(chunks, k) = {}
PROOF
<1>1. k > 1 /\ chunks[k] = GetTail(c, chunks[k - 1])
  BY DEF Echo
<1>2. Len(chunks) \in Nat
  BY LenProperties
<1>3. k - 1 \in 1 .. Len(chunks) /\ k - 1 \in 1 .. k - 1
  BY <1>1, <1>2
<1>4. chunks[k - 1] \in Seq(Rune)
  BY <1>3, ElementOfSeq
<1>5. InText(chunks[k]) \subseteq InText(chunks[k - 1])
  BY <1>1, <1>4, TailSays
<1>6. InText(chunks[k - 1]) \subseteq SaidBefore(chunks, k)
  BY <1>3, SaidIs
<1> QED  BY <1>5, <1>6 DEF NewsOf

\* A chunk stays good when chunks are appended.
LEMMA GoodKept ==
  ASSUME NEW c \in Chunkers, NEW doc, NEW chunks \in Seq(Seq(Rune)),
         NEW longer \in Seq(Seq(Rune)), Len(chunks) <= Len(longer),
         \A j \in 1 .. Len(chunks) : longer[j] = chunks[j],
         NEW k \in 1 .. Len(chunks), ChunkGood(c, doc, chunks, k)
  PROVE  ChunkGood(c, doc, longer, k)
PROOF
<1>1. Len(chunks) \in Nat /\ Len(longer) \in Nat
  BY LenProperties
<1>2. longer[k] = chunks[k] /\ (k > 1 => longer[k - 1] = chunks[k - 1]) /\ k \in 1 .. Len(longer)
  BY <1>1
<1>3. SaidBefore(longer, k) = SaidBefore(chunks, k)
  <2>1. \A j \in 1 .. k - 1 : longer[j] = chunks[j]
    BY <1>1
  <2> QED  BY <2>1, SaidSame
<1>4. NewsOf(longer, k) = NewsOf(chunks, k)
  BY <1>2, <1>3 DEF NewsOf
<1>5. Echo(c, doc, chunks, k) => Echo(c, doc, longer, k)
  <2> SUFFICES ASSUME Echo(c, doc, chunks, k) PROVE Echo(c, doc, longer, k)
    OBVIOUS
  <2>1. k > 1 /\ k < Len(chunks)
    BY DEF Echo
  <2>2. longer[k + 1] = chunks[k + 1] /\ k < Len(longer)
    <3>1. k + 1 \in 1 .. Len(chunks) /\ k < Len(longer)
      BY <1>1, <2>1
    <3> QED  BY <3>1
  <2> QED  BY <1>2, <2>1, <2>2 DEF Echo
<1>6. Echo(c, doc, longer, k) => Echo(c, doc, chunks, k)
  <2> SUFFICES ASSUME Echo(c, doc, longer, k) PROVE Echo(c, doc, chunks, k)
    OBVIOUS
  <2>1. NewsOf(longer, k) = {}
    BY <1>2, EchoNoNews
  <2> QED  BY <1>4, <2>1 DEF ChunkGood, NewsOrEcho
<1>7. Fits(c, longer, k)
  BY <1>2 DEF ChunkGood, Fits
<1>8. TextInOrder(longer, k)
  BY <1>3, <1>4 DEF ChunkGood, TextInOrder
<1>9. NewsOrEcho(c, doc, longer, k)
  BY <1>4, <1>5, <1>6 DEF ChunkGood, NewsOrEcho
<1>10. Overlaps(c, doc, longer, k)
  BY <1>2, <1>5, <1>6 DEF ChunkGood, Overlaps
<1>11. Headed(c, doc, longer, k)
  BY <1>2 DEF ChunkGood, Headed
<1> QED  BY <1>7, <1>8, <1>9, <1>10, <1>11 DEF ChunkGood

LEMMA AppendIs ==
  ASSUME NEW S, NEW base \in Seq(S), NEW t \in S
  PROVE  LET b == Append(base, t)
             n == Len(base)
         IN /\ n \in Nat /\ b \in Seq(S) /\ Len(b) = n + 1 /\ b[n + 1] = t
            /\ \A j \in 1 .. n : b[j] = base[j]
            /\ SaidBefore(b, n + 1) = SaidBefore(base, n + 1)
            /\ SaidBefore(b, n + 2) = SaidBefore(base, n + 1) \cup InText(t)
PROOF
<1> DEFINE b == Append(base, t)
           n == Len(base)
<1>1. /\ n \in Nat /\ b \in Seq(S) /\ Len(b) = n + 1 /\ b[n + 1] = t
      /\ \A j \in 1 .. n : b[j] = base[j]
  BY AppendProperties, LenProperties
<1> HIDE DEF b, n
<1>2. (n + 1) - 1 = n /\ n + 1 \in Nat \ {0} /\ (n + 1) + 1 = n + 2
  BY <1>1
<1>3. SaidBefore(b, n + 1) = SaidBefore(base, n + 1)
  <2>1. \A j \in 1 .. (n + 1) - 1 : b[j] = base[j]
    BY <1>1, <1>2
  <2> QED  BY <2>1, SaidSame
<1>4. SaidBefore(b, (n + 1) + 1) = SaidBefore(b, n + 1) \cup InText(b[n + 1])
  BY <1>2, SaidNext
<1> QED  BY <1>1, <1>2, <1>3, <1>4 DEF b, n

\* The runes of the paragraphs up to the p-th.
RunesUpTo(doc, p) == {r \in Rune : r[1] \in 1 .. p /\ r[2] \in 1 .. doc[r[1]].runes}

LEMMA ParagraphText ==
  ASSUME NEW doc \in Documents, NEW p \in DOMAIN doc
  PROVE  /\ InText(Paragraph(doc, p)) = RunesTo(p, doc[p].runes)
         /\ RunesUpTo(doc, p) = RunesUpTo(doc, p - 1) \cup RunesTo(p, doc[p].runes)
         /\ \A r \in RunesTo(p, doc[p].runes) : r \in Rune /\ r[1] = p /\ r # Gap
         /\ \A r \in RunesUpTo(doc, p - 1) : r[1] < p /\ r # Gap
PROOF
<1>1. /\ Paragraph(doc, p) \in Seq(Rune) /\ Len(Paragraph(doc, p)) = doc[p].runes
      /\ \A i \in 1 .. doc[p].runes : Paragraph(doc, p)[i] = <<p, i>>
      /\ doc[p].runes \in Nat /\ p \in Nat \ {0}
  BY ParagraphIs
<1>2. PICK L : L = doc[p].runes
  OBVIOUS
<1>3. InText(Paragraph(doc, p)) = RunesTo(p, L)
  <2>1. PICK t : t = Paragraph(doc, p)
    OBVIOUS
  <2>2. t \in Seq(Rune) /\ Len(t) = L /\ \A i \in 1 .. L : t[i] = <<p, i>>
    BY <1>1, <1>2, <2>1
  <2>3. \A r : r \in InText(t) <=> \E i \in 1 .. L : r = t[i]
    BY <2>2, TextIs
  <2>4. ASSUME NEW r \in InText(t) PROVE r \in RunesTo(p, L)
    <3>1. PICK i \in 1 .. L : r = t[i]
      BY <2>3
    <3>2. r = <<p, i>>
      BY <2>2, <3>1
    <3> QED  BY <3>2 DEF RunesTo
  <2>5. ASSUME NEW r \in RunesTo(p, L) PROVE r \in InText(t)
    <3>1. PICK i \in 1 .. L : r = <<p, i>>
      BY DEF RunesTo
    <3>2. r = t[i]
      BY <2>2, <3>1
    <3> QED  BY <2>3, <3>2
  <2> QED  BY <2>1, <2>4, <2>5
<1>4. \A r \in RunesTo(p, L) : r \in Rune /\ r[1] = p /\ r[2] \in 1 .. L /\ r # Gap
  BY <1>1, <1>2 DEF RunesTo, Rune, Gap
<1>5. \A r \in RunesUpTo(doc, p - 1) : r \in Rune /\ r[1] \in 1 .. p - 1 /\ r # Gap
  BY <1>1 DEF RunesUpTo, Gap
<1>6. \A q : q \in 1 .. p <=> q \in 1 .. p - 1 \/ q = p
  BY <1>1
<1>7. ASSUME NEW r \in RunesUpTo(doc, p), r \notin RunesUpTo(doc, p - 1)
      PROVE  r \in RunesTo(p, L)
  <2>1. r \in Rune /\ r[1] = p /\ r[2] \in 1 .. L
    BY <1>2, <1>6, <1>7 DEF RunesUpTo
  <2>2. r = <<p, r[2]>>
    BY <2>1 DEF Rune
  <2> QED  BY <2>1, <2>2 DEF RunesTo
<1>8. RunesUpTo(doc, p - 1) \subseteq RunesUpTo(doc, p)
  BY <1>6 DEF RunesUpTo
<1>9. RunesTo(p, L) \subseteq RunesUpTo(doc, p)
  BY <1>2, <1>4, <1>6 DEF RunesUpTo
<1>10. \A r \in RunesUpTo(doc, p - 1) : r[1] < p /\ r # Gap
  BY <1>1, <1>5
<1> QED  BY <1>2, <1>3, <1>4, <1>7, <1>8, <1>9, <1>10

LEMMA SaidConcat ==
  ASSUME NEW B \in Seq(Seq(Rune)), NEW w \in Seq(Seq(Rune)), NEW j \in 0 .. Len(w)
  PROVE  SaidBefore(B \o w, Len(B) + j + 1)
           = SaidBefore(B, Len(B) + 1) \cup SaidBefore(w, j + 1)
PROOF
<1> DEFINE all == B \o w
           n == Len(B)
<1>1. /\ \A i \in 1 .. n : all[i] = B[i]
      /\ \A i \in 1 .. Len(w) : all[n + i] = w[i]
  BY ConcatIs
<1>2. n \in Nat /\ Len(w) \in Nat
  BY LenProperties
<1> HIDE DEF all, n
<1>3. (n + j + 1) - 1 = n + j /\ (n + 1) - 1 = n /\ (j + 1) - 1 = j
  BY <1>2
<1>4. ASSUME NEW r \in SaidBefore(all, n + j + 1)
      PROVE  r \in SaidBefore(B, n + 1) \cup SaidBefore(w, j + 1)
  <2>1. PICK i \in 1 .. n + j : r \in InText(all[i])
    BY <1>3, SaidIs
  <2>2. CASE i \in 1 .. n
    BY <1>1, <1>3, <2>1, <2>2, SaidIs
  <2>3. CASE i \notin 1 .. n
    <3>1. PICK m \in 1 .. j : i = n + m
      <4>1. i - n \in 1 .. j /\ i = n + (i - n)
        BY <1>2, <2>3
      <4> QED  BY <4>1
    <3>2. m \in 1 .. Len(w)
      BY <1>2
    <3>3. r \in InText(w[m])
      BY <1>1, <2>1, <3>1, <3>2
    <3> QED  BY <1>3, <3>3, SaidIs
  <2> QED  BY <2>2, <2>3
<1>5. ASSUME NEW r \in SaidBefore(B, n + 1) PROVE r \in SaidBefore(all, n + j + 1)
  <2>1. PICK i \in 1 .. n : r \in InText(B[i])
    BY <1>3, SaidIs
  <2>2. i \in 1 .. n + j /\ r \in InText(all[i])
    BY <1>1, <1>2, <2>1
  <2> QED  BY <1>3, <2>2, SaidIs
<1>6. ASSUME NEW r \in SaidBefore(w, j + 1) PROVE r \in SaidBefore(all, n + j + 1)
  <2>1. PICK m \in 1 .. j : r \in InText(w[m])
    BY <1>3, SaidIs
  <2>2. m \in 1 .. Len(w) /\ n + m \in 1 .. n + j
    BY <1>2
  <2>3. r \in InText(all[n + m])
    BY <1>1, <2>1, <2>2
  <2> QED  BY <1>3, <2>2, <2>3, SaidIs
<1> QED  BY <1>4, <1>5, <1>6 DEF all, n

(***************************************************************************)
(* A chunk that ends with a new paragraph.                                 *)
(***************************************************************************)

Everything(chunks) == SaidBefore(chunks, Len(chunks) + 1)

\* What a chunk about to be appended to the chunks of base may already say.
Continues(c, doc, base, old) ==
  \A r \in old \ {Gap} :
    /\ r \in Everything(base) \/ \A q \in Everything(base) \ {Gap} : Follows(r, q)
    /\ \/ <<r[1], 1>> \in old
       \/ doc[r[1]].runes > c.ChunkSize
       \/ Len(base) > 0 /\ r \in InText(GetTail(c, base[Len(base)]))

\* The text t ends with the paragraph p and says nothing else that is not in old.
EndsWith(c, doc, base, old, t, p) ==
  /\ Len(t) \in 1 .. c.ChunkSize + c.ChunkOverlap + 2
  /\ Len(t) > c.ChunkSize => Len(base) > 0 /\ Gap \in InText(t)
  /\ Gap \in InText(t) \/ t[1][2] = 1
  /\ InText(t) \ {Gap} = (old \cup RunesTo(p, doc[p].runes)) \ {Gap}

LEMMA LastGood ==
  ASSUME NEW c \in Chunkers, NEW doc \in Documents, NEW p \in DOMAIN doc, doc[p].runes # 0,
         NEW base \in Seq(Seq(Rune)), Everything(base) \ {Gap} \subseteq RunesUpTo(doc, p - 1),
         NEW old, Continues(c, doc, base, old),
         NEW t \in Seq(Rune), EndsWith(c, doc, base, old, t, p)
  PROVE  ChunkGood(c, doc, Append(base, t), Len(base) + 1)
PROOF
<1> DEFINE b == Append(base, t)
           n == Len(base)
<1>1. /\ n \in Nat /\ b \in Seq(Seq(Rune)) /\ Len(b) = n + 1 /\ b[n + 1] = t
      /\ \A j \in 1 .. n : b[j] = base[j]
      /\ SaidBefore(b, n + 1) = Everything(base)
  BY AppendIs DEF Everything
<1> HIDE DEF b, n
<1>2. /\ \A r \in RunesTo(p, doc[p].runes) : r \in Rune /\ r[1] = p /\ r # Gap
      /\ \A r \in RunesUpTo(doc, p - 1) : r[1] < p /\ r # Gap
  BY ParagraphText
<1>3. doc[p].runes \in Nat /\ p \in Nat \ {0}
  BY ParagraphIs
<1>4. <<p, 1>> \in RunesTo(p, doc[p].runes)
  BY <1>3 DEF RunesTo
<1>5. NewsOf(b, n + 1) = InText(t) \ (Everything(base) \cup {Gap})
  BY <1>1 DEF NewsOf
<1>6. <<p, 1>> \in InText(t) /\ <<p, 1>> # Gap
  BY <1>2, <1>4 DEF EndsWith
<1>7. <<p, 1>> \notin Everything(base)
  <2>1. <<p, 1>>[1] = p /\ ~ (p < p)
    BY <1>3
  <2> QED  BY <1>2, <1>6, <2>1
<1>8. Fits(c, b, n + 1)
  <2>1. n > 0 => n + 1 > 1
    BY <1>1
  <2> QED  BY <1>1, <2>1 DEF EndsWith, Fits, n
<1>9. TextInOrder(b, n + 1)
  <2> SUFFICES ASSUME NEW r \in NewsOf(b, n + 1), NEW q \in Everything(base) \ {Gap}
               PROVE  Follows(r, q)
    BY <1>1 DEF TextInOrder
  <2>1. r \in InText(t) \ {Gap} /\ r \notin Everything(base)
    BY <1>5
  <2>2. CASE r \in RunesTo(p, doc[p].runes)
    <3>1. r[1] = p /\ q[1] < p
      BY <1>2, <2>2
    <3>2. q \in RunesUpTo(doc, p - 1)
      OBVIOUS
    <3>3. q[1] \in Nat
      BY <3>2 DEF RunesUpTo, Rune
    <3> QED  BY <1>3, <3>1, <3>3 DEF Follows
  <2>3. CASE r \in old \ {Gap}
    BY <2>1, <2>3 DEF Continues
  <2> QED  BY <2>1, <2>2, <2>3 DEF EndsWith
<1>10. NewsOrEcho(c, doc, b, n + 1)
  <2>1. NewsOf(b, n + 1) # {}
    BY <1>5, <1>6, <1>7
  <2>2. ~ (n + 1 < Len(b))
    BY <1>1
  <2> QED  BY <2>1, <2>2 DEF NewsOrEcho, Echo
<1>11. Overlaps(c, doc, b, n + 1)
  <2>1. Gap \in InText(b[n + 1]) \/ ~ (b[n + 1][1][2] > 1)
    BY <1>1 DEF EndsWith
  <2> QED  BY <2>1 DEF Overlaps
<1>12. Headed(c, doc, b, n + 1)
  <2> SUFFICES ASSUME NEW r \in InText(t) \ {Gap}
               PROVE  \/ <<r[1], 1>> \in InText(t)
                      \/ doc[r[1]].runes > c.ChunkSize
                      \/ n > 0 /\ r \in InText(GetTail(c, base[n]))
    <3>1. n > 0 => n + 1 > 1 /\ (n + 1) - 1 = n /\ n \in 1 .. n
      BY <1>1
    <3> QED  BY <1>1, <3>1 DEF Headed
  <2>1. CASE r \in RunesTo(p, doc[p].runes)
    <3>1. r[1] = p
      BY <1>2, <2>1
    <3> QED  BY <1>6, <3>1
  <2>2. CASE r \in old \ {Gap}
    <3>1. \/ <<r[1], 1>> \in old
          \/ doc[r[1]].runes > c.ChunkSize
          \/ n > 0 /\ r \in InText(GetTail(c, base[n]))
      BY <2>2 DEF Continues, n
    <3>2. <<r[1], 1>> # Gap
      BY DEF Gap
    <3>3. <<r[1], 1>> \in old => <<r[1], 1>> \in InText(t)
      BY <3>2 DEF EndsWith
    <3> QED  BY <3>1, <3>3
  <2> QED  BY <2>1, <2>2 DEF EndsWith
<1> QED  BY <1>8, <1>9, <1>10, <1>11, <1>12 DEF ChunkGood, b, n

LEMMA NothingContinues ==
  ASSUME NEW c, NEW doc, NEW base
  PROVE  Continues(c, doc, base, {})
BY DEF Continues

LEMMA TailContinues ==
  ASSUME NEW c \in Chunkers, NEW doc, NEW base \in Seq(Seq(Rune)), Len(base) > 0
  PROVE  Continues(c, doc, base, InText(GetTail(c, base[Len(base)])))
PROOF
<1>1. Len(base) \in Nat /\ Len(base) \in 1 .. (Len(base) + 1) - 1
  BY LenProperties
<1>2. base[Len(base)] \in Seq(Rune)
  BY <1>1, ElementOfSeq
<1>3. InText(GetTail(c, base[Len(base)])) \subseteq InText(base[Len(base)])
  BY <1>2, TailSays
<1>4. InText(base[Len(base)]) \subseteq Everything(base)
  BY <1>1, SaidIs DEF Everything
<1> QED  BY <1>3, <1>4 DEF Continues

LEMMA GoodContinues ==
  ASSUME NEW c \in Chunkers, NEW doc, NEW base \in Seq(Seq(Rune)), NEW t \in Seq(Rune),
         ChunkGood(c, doc, Append(base, t), Len(base) + 1)
  PROVE  Continues(c, doc, base, InText(t))
PROOF
<1> DEFINE b == Append(base, t)
           n == Len(base)
<1>1. /\ n \in Nat /\ b[n + 1] = t /\ \A j \in 1 .. n : b[j] = base[j]
      /\ SaidBefore(b, n + 1) = Everything(base)
  BY AppendIs DEF Everything
<1>2. ChunkGood(c, doc, b, n + 1)
  OBVIOUS
<1> HIDE DEF b, n
<1>3. ASSUME NEW r \in InText(t) \ {Gap}
      PROVE  r \in Everything(base) \/ \A q \in Everything(base) \ {Gap} : Follows(r, q)
  BY <1>1, <1>2 DEF ChunkGood, TextInOrder, NewsOf
<1>4. ASSUME NEW r \in InText(t) \ {Gap}
      PROVE  \/ <<r[1], 1>> \in InText(t)
             \/ doc[r[1]].runes > c.ChunkSize
             \/ n > 0 /\ r \in InText(GetTail(c, base[n]))
  <2>1. \/ <<r[1], 1>> \in InText(t)
        \/ doc[r[1]].runes > c.ChunkSize
        \/ n + 1 > 1 /\ r \in InText(GetTail(c, b[(n + 1) - 1]))
    BY <1>1, <1>2 DEF ChunkGood, Headed
  <2>2. n + 1 > 1 => n > 0 /\ (n + 1) - 1 = n /\ b[n] = base[n]
    <3>1. n \in Nat
      BY <1>1
    <3>2. n + 1 > 1 => n > 0 /\ (n + 1) - 1 = n /\ n \in 1 .. n
      BY <3>1
    <3> QED  BY <1>1, <3>2
  <2> QED  BY <2>1, <2>2
<1> QED  BY <1>3, <1>4 DEF Continues, n

(***************************************************************************)
(* What one turn of the loop keeps.                                        *)
(***************************************************************************)

ChunkInv(c, doc, made, p) ==
  /\ made \in Building
  /\ \A k \in 1 .. Len(made.chunks) : ChunkGood(c, doc, made.chunks, k)
  /\ made.current # <<>> =>
       ChunkGood(c, doc, Append(made.chunks, made.current), Len(made.chunks) + 1)
  /\ Everything(AllOf(made)) \ {Gap} = RunesUpTo(doc, p)

LEMMA EverythingAppended ==
  ASSUME NEW base \in Seq(Seq(Rune)), NEW t \in Seq(Rune)
  PROVE  Everything(Append(base, t)) = Everything(base) \cup InText(t)
PROOF
<1> DEFINE b == Append(base, t)
           n == Len(base)
<1>1. /\ n \in Nat /\ Len(b) = n + 1
      /\ SaidBefore(b, n + 2) = SaidBefore(base, n + 1) \cup InText(t)
  BY AppendIs
<1> HIDE DEF b, n
<1>2. Len(b) + 1 = n + 2
  BY <1>1
<1> QED  BY <1>1, <1>2 DEF Everything, b, n

\* All the chunks are good once the paragraph under way is the last of them.
LEMMA AllGood ==
  ASSUME NEW c \in Chunkers, NEW doc, NEW base \in Seq(Seq(Rune)), NEW t \in Seq(Rune),
         \A k \in 1 .. Len(base) : ChunkGood(c, doc, base, k),
         ChunkGood(c, doc, Append(base, t), Len(base) + 1)
  PROVE  \A k \in 1 .. Len(Append(base, t)) : ChunkGood(c, doc, Append(base, t), k)
PROOF
<1> DEFINE b == Append(base, t)
           n == Len(base)
<1>1. /\ n \in Nat /\ b \in Seq(Seq(Rune)) /\ Len(b) = n + 1
      /\ \A j \in 1 .. n : b[j] = base[j]
  BY AppendIs
<1>2. ChunkGood(c, doc, b, n + 1)
  OBVIOUS
<1>3. \A k \in 1 .. n : ChunkGood(c, doc, base, k)
  OBVIOUS
<1> HIDE DEF b
<1>4. ASSUME NEW k \in 1 .. n PROVE ChunkGood(c, doc, b, k)
  <2>1. Len(base) <= Len(b)
    BY <1>1
  <2>2. \A j \in 1 .. Len(base) : b[j] = base[j]
    BY <1>1
  <2>3. k \in 1 .. Len(base) /\ ChunkGood(c, doc, base, k)
    BY <1>3
  <2> HIDE DEF n
  <2> QED  BY <1>1, <2>1, <2>2, <2>3, GoodKept
<1> HIDE DEF n
<1>5. \A k \in 1 .. n + 1 : k \in 1 .. n \/ k = n + 1
  BY <1>1
<1>6. \A k \in 1 .. n + 1 : ChunkGood(c, doc, b, k)
  BY <1>2, <1>4, <1>5
<1> QED  BY <1>1, <1>6 DEF b

\* A short paragraph starts a chunk or ends the one under way, which says what is in
\* old; base is the chunks then complete.
LEMMA ShortAdded ==
  ASSUME NEW c \in Chunkers, NEW doc \in Documents, NEW p \in DOMAIN doc, doc[p].runes # 0,
         doc[p].runes <= c.ChunkSize,
         NEW base \in Seq(Seq(Rune)), \A k \in 1 .. Len(base) : ChunkGood(c, doc, base, k),
         NEW current \in Seq(Rune), Continues(c, doc, base, InText(current)),
         (Everything(base) \cup InText(current)) \ {Gap} = RunesUpTo(doc, p - 1),
         current # <<>> =>
           \/ Len(current) + 2 + doc[p].runes <= c.ChunkSize
           \/ Len(base) > 0 /\ Len(current) <= c.ChunkOverlap
  PROVE  ChunkInv(c, doc, [chunks |-> base, current |-> Joined(current, Paragraph(doc, p))], p)
PROOF
<1> DEFINE para == Paragraph(doc, p)
           L == doc[p].runes
           t == Joined(current, para)
           next == [chunks |-> base, current |-> t]
<1>1. /\ para \in Seq(Rune) /\ Len(para) = L /\ L \in Nat \ {0}
      /\ p \in Nat \ {0} /\ \A i \in 1 .. L : para[i] = <<p, i>>
  BY ParagraphIs
<1>2. /\ InText(para) = RunesTo(p, L)
      /\ RunesUpTo(doc, p) = RunesUpTo(doc, p - 1) \cup RunesTo(p, L)
      /\ \A r \in RunesTo(p, L) : r \in Rune /\ r[1] = p /\ r # Gap
  BY ParagraphText
<1>3. para # <<>>
  BY <1>1, TextIs
<1> HIDE DEF para
<1>4. /\ t \in Seq(Rune) /\ t # <<>>
      /\ current = <<>> => t = para
      /\ current # <<>> => /\ Len(t) = Len(current) + 2 + Len(para)
                           /\ InText(t) = InText(current) \cup {Gap} \cup InText(para)
  BY <1>1, <1>3, JoinedIs
<1> HIDE DEF t
<1>5. c.ChunkSize \in Nat /\ c.ChunkOverlap \in Nat /\ Len(current) \in Nat
  BY LenProperties DEF Chunkers
<1>6. current = <<>> => InText(current) = {}
  BY DEF InText
<1>7. InText(t) \ {Gap} = (InText(current) \cup RunesTo(p, L)) \ {Gap}
  <2>1. CASE current = <<>>
    BY <1>2, <1>4, <1>6, <2>1
  <2>2. CASE current # <<>>
    BY <1>2, <1>4, <2>2
  <2> QED  BY <2>1, <2>2
<1>8. Gap \in InText(t) \/ t[1][2] = 1
  <2>1. CASE current = <<>>
    <3>1. t[1] = <<p, 1>>
      <4>1. 1 \in 1 .. L
        BY <1>1
      <4> QED  BY <1>1, <1>4, <2>1, <4>1
    <3> QED  BY <3>1
  <2>2. CASE current # <<>>
    BY <1>4, <2>2
  <2> QED  BY <2>1, <2>2
<1>9. /\ Len(t) \in 1 .. c.ChunkSize + c.ChunkOverlap + 2
      /\ Len(t) > c.ChunkSize => Len(base) > 0 /\ Gap \in InText(t)
  <2>1. CASE current = <<>>
    <3>1. Len(t) = L
      BY <1>1, <1>4, <2>1
    <3>2. L <= c.ChunkSize
      OBVIOUS
    <3> HIDE DEF L
    <3>3. L \in 1 .. c.ChunkSize + c.ChunkOverlap + 2 /\ ~ (L > c.ChunkSize)
      BY <1>1, <1>5, <3>2
    <3> QED  BY <3>1, <3>3
  <2>2. CASE current # <<>>
    <3>1. Len(t) = Len(current) + 2 + L /\ Gap \in InText(t)
      BY <1>1, <1>4, <2>2
    <3>2. L <= c.ChunkSize
      OBVIOUS
    <3>3. \/ Len(current) + 2 + L <= c.ChunkSize
          \/ Len(base) > 0 /\ Len(current) <= c.ChunkOverlap
      BY <2>2
    <3> HIDE DEF L
    <3>4. Len(t) \in 1 .. c.ChunkSize + c.ChunkOverlap + 2
      BY <1>1, <1>5, <3>1, <3>2, <3>3
    <3>5. Len(t) > c.ChunkSize => Len(base) > 0
      BY <1>1, <1>5, <3>1, <3>3
    <3> QED  BY <3>1, <3>4, <3>5
  <2> QED  BY <2>1, <2>2
<1>10. EndsWith(c, doc, base, InText(current), t, p)
  BY <1>7, <1>8, <1>9 DEF EndsWith
<1>11. Everything(base) \ {Gap} \subseteq RunesUpTo(doc, p - 1)
  OBVIOUS
<1>12. ChunkGood(c, doc, Append(base, t), Len(base) + 1)
  BY <1>4, <1>10, <1>11, LastGood
<1>13. Everything(Append(base, t)) \ {Gap} = RunesUpTo(doc, p)
  <2>1. Everything(Append(base, t)) = Everything(base) \cup InText(t)
    BY <1>4, EverythingAppended
  <2>2. RunesTo(p, L) = RunesTo(p, L) \ {Gap}
    BY <1>2
  <2>3. (Everything(base) \cup InText(current)) \ {Gap} = RunesUpTo(doc, p - 1)
    OBVIOUS
  <2> HIDE DEF L
  <2> QED  BY <1>2, <1>7, <2>1, <2>2, <2>3
<1>14. AllOf(next) = Append(base, t) /\ next \in Building
       /\ next.chunks = base /\ next.current = t
  BY <1>4 DEF AllOf, Building
<1> HIDE DEF next
<1>15. ChunkInv(c, doc, next, p)
  BY <1>12, <1>13, <1>14 DEF ChunkInv
<1> QED  BY <1>15 DEF next, t, para

LEMMA ShortStep ==
  ASSUME NEW c \in Chunkers, NEW doc \in Documents, NEW p \in DOMAIN doc, doc[p].runes # 0,
         ~ (doc[p].runes > c.ChunkSize), NEW made, ChunkInv(c, doc, made, p - 1)
  PROVE  ChunkInv(c, doc, AddParagraph(c, doc, made, p), p)
PROOF
<1> DEFINE L == doc[p].runes
           chunks == made.chunks
           current == made.current
           then == Flushed(c, doc, made, p)
<1>1. made \in Building /\ chunks \in Seq(Seq(Rune)) /\ current \in Seq(Rune)
  BY DEF ChunkInv, Building
<1>2. AddParagraph(c, doc, made, p)
        = [chunks |-> then.chunks, current |-> Joined(then.current, Paragraph(doc, p))]
  BY <1>1, AddParagraphCases
<1>3. L \in Nat /\ c.ChunkSize \in Nat /\ c.ChunkOverlap \in Nat /\ Len(Paragraph(doc, p)) = L
  BY ParagraphIs DEF Chunkers
<1>4. L # 0 /\ L <= c.ChunkSize
  BY <1>3
<1>5. /\ \A k \in 1 .. Len(chunks) : ChunkGood(c, doc, chunks, k)
      /\ current # <<>> => ChunkGood(c, doc, Append(chunks, current), Len(chunks) + 1)
      /\ Everything(AllOf(made)) \ {Gap} = RunesUpTo(doc, p - 1)
  BY DEF ChunkInv
<1>6. then = IF Flushes(c, doc, made, p)
             THEN [chunks |-> Append(chunks, current), current |-> GetTail(c, current)]
             ELSE made
  BY DEF Flushed
<1>7. Flushes(c, doc, made, p) <=> BytesOf(doc, current) + L + 2 > c.ChunkSize /\ current # <<>>
  BY <1>3 DEF Flushes
<1>8. AllOf(made) = IF current = <<>> THEN chunks ELSE Append(chunks, current)
  BY DEF AllOf
<1> HIDE DEF chunks, current, then
<1>9. CASE current = <<>>
  <2>1. then.chunks = chunks /\ then.current = current
    BY <1>6, <1>7, <1>9 DEF chunks, current
  <2>2. InText(current) = {}
    BY <1>9 DEF InText
  <2>3. Continues(c, doc, chunks, InText(current))
    BY <2>2, NothingContinues
  <2>4. (Everything(chunks) \cup InText(current)) \ {Gap} = RunesUpTo(doc, p - 1)
    BY <1>5, <1>8, <1>9, <2>2
  <2>5. ChunkInv(c, doc, [chunks |-> chunks, current |-> Joined(current, Paragraph(doc, p))], p)
    BY <1>1, <1>4, <1>5, <1>9, <2>3, <2>4, ShortAdded
  <2> QED  BY <1>2, <2>1, <2>5
<1>10. CASE current # <<>> /\ ~ Flushes(c, doc, made, p)
  <2>1. then.chunks = chunks /\ then.current = current
    BY <1>6, <1>10 DEF chunks, current
  <2>2. Continues(c, doc, chunks, InText(current))
    BY <1>1, <1>5, <1>10, GoodContinues
  <2>3. (Everything(chunks) \cup InText(current)) \ {Gap} = RunesUpTo(doc, p - 1)
    BY <1>1, <1>5, <1>8, <1>10, EverythingAppended
  <2>4. Len(current) + 2 + L <= c.ChunkSize
    <3>1. BytesOf(doc, current) \in Nat /\ Len(current) <= BytesOf(doc, current)
      BY <1>1, BytesBound
    <3>2. Len(current) \in Nat
      BY <1>1, LenProperties
    <3>3. ~ (BytesOf(doc, current) + L + 2 > c.ChunkSize)
      BY <1>7, <1>10
    <3> HIDE DEF L
    <3> QED  BY <1>3, <3>1, <3>2, <3>3
  <2>5. ChunkInv(c, doc, [chunks |-> chunks, current |-> Joined(current, Paragraph(doc, p))], p)
    BY <1>1, <1>4, <1>5, <2>2, <2>3, <2>4, ShortAdded
  <2> QED  BY <1>2, <2>1, <2>5
<1>11. CASE current # <<>> /\ Flushes(c, doc, made, p)
  <2> DEFINE base == Append(chunks, current)
             tail == GetTail(c, current)
  <2>1. then.chunks = base /\ then.current = tail
    BY <1>6, <1>11
  <2>2. /\ base \in Seq(Seq(Rune)) /\ Len(base) > 0 /\ base[Len(base)] = current
    <3>1. /\ Len(chunks) \in Nat /\ base \in Seq(Seq(Rune)) /\ Len(base) = Len(chunks) + 1
          /\ base[Len(chunks) + 1] = current
      BY <1>1, AppendIs
    <3> HIDE DEF base
    <3>2. Len(chunks) + 1 > 0
      BY <3>1
    <3> QED  BY <3>1, <3>2
  <2>3. tail \in Seq(Rune) /\ Len(tail) <= c.ChunkOverlap /\ InText(tail) \subseteq InText(current)
    <3>1. tail \in Seq(Rune) /\ Len(tail) \in 1 .. c.ChunkOverlap
          /\ InText(tail) \subseteq InText(current)
      BY <1>1, <1>11, TailIs
    <3> HIDE DEF tail
    <3> QED  BY <3>1
  <2>4. \A k \in 1 .. Len(base) : ChunkGood(c, doc, base, k)
    BY <1>1, <1>5, <1>11, AllGood
  <2>5. Everything(base) = Everything(chunks) \cup InText(current)
    BY <1>1, EverythingAppended
  <2>6. Everything(base) \ {Gap} = RunesUpTo(doc, p - 1)
    BY <1>5, <1>8, <1>11
  <2>7. tail = GetTail(c, base[Len(base)])
    BY <2>2
  <2> HIDE DEF base, tail
  <2>8. Continues(c, doc, base, InText(tail))
    BY <2>2, <2>7, TailContinues
  <2>9. (Everything(base) \cup InText(tail)) \ {Gap} = RunesUpTo(doc, p - 1)
    BY <2>3, <2>5, <2>6
  <2>10. ChunkInv(c, doc, [chunks |-> base, current |-> Joined(tail, Paragraph(doc, p))], p)
    BY <1>4, <2>2, <2>3, <2>4, <2>8, <2>9, ShortAdded
  <2> QED  BY <1>2, <2>1, <2>10
<1> QED  BY <1>9, <1>10, <1>11

\* The windows of a long paragraph are good after the chunks of B.
LEMMA WindowsGood ==
  ASSUME NEW c \in Chunkers, NEW doc \in Documents, c.ChunkOverlap < c.ChunkSize,
         NEW p \in DOMAIN doc, doc[p].runes > c.ChunkSize,
         NEW B \in Seq(Seq(Rune)), Everything(B) \ {Gap} \subseteq RunesUpTo(doc, p - 1),
         NEW w, NEW K, NEW from, NEW upTo, Windows(c, p, doc[p].runes, w, K, from, upTo),
         NEW j \in 1 .. K
  PROVE  ChunkGood(c, doc, B \o w, Len(B) + j)
PROOF
<1> DEFINE L == doc[p].runes
           all == B \o w
           n == Len(B)
           k == n + j
           Z == c.ChunkSize
           V == c.ChunkOverlap
<1>1. /\ K \in Nat \ {0} /\ from \in [1 .. K -> Nat] /\ upTo \in [1 .. K -> Nat]
      /\ w \in Seq(Seq(Rune)) /\ Len(w) = K /\ from[1] = 0
      /\ from[j] < upTo[j] /\ upTo[j] - from[j] <= Z /\ Len(w[j]) = upTo[j] - from[j]
      /\ \A i \in 1 .. Len(w[j]) : w[j][i] = <<p, from[j] + i>>
  BY DEF Windows
<1>2. L \in Nat /\ p \in Nat \ {0} /\ Z \in Nat \ {0} /\ V \in Nat \ {0} /\ V < Z /\ n \in Nat
  BY ParagraphIs, LenProperties DEF Chunkers
<1>3. PICK f, u, t : f = from[j] /\ u = upTo[j] /\ t = w[j]
  OBVIOUS
<1>4. /\ f \in Nat /\ u \in Nat /\ f < u /\ u - f <= Z /\ Len(t) = u - f /\ t \in Seq(Rune)
      /\ \A i \in 1 .. u - f : t[i] = <<p, f + i>>
  <2>1. t \in Seq(Rune)
    BY <1>1, <1>3, ElementOfSeq
  <2> QED  BY <1>1, <1>3, <2>1
<1>5. /\ all \in Seq(Seq(Rune)) /\ Len(all) = n + K
      /\ \A i \in 1 .. n : all[i] = B[i]
      /\ \A i \in 1 .. K : all[n + i] = w[i]
  <2>1. /\ all \in Seq(Seq(Rune)) /\ Len(all) = n + Len(w)
        /\ \A i \in 1 .. n : all[i] = B[i]
        /\ \A i \in 1 .. Len(w) : all[n + i] = w[i]
    <3>1. PICK S : S = Seq(Rune)
      OBVIOUS
    <3>2. B \in Seq(S) /\ w \in Seq(S)
      BY <1>1, <3>1
    <3>3. /\ all \in Seq(S) /\ Len(all) = n + Len(w)
          /\ \A i \in 1 .. n : all[i] = B[i]
          /\ \A i \in 1 .. Len(w) : all[n + i] = w[i]
      BY <3>2, ConcatIs
    <3> QED  BY <3>1, <3>3
  <2> HIDE DEF all, n
  <2> QED  BY <1>1, <2>1
<1>6. SaidBefore(all, n + (j - 1) + 1) = Everything(B) \cup SaidBefore(w, (j - 1) + 1)
  <2>1. j - 1 \in 0 .. Len(w)
    BY <1>1
  <2> QED  BY <1>1, <2>1, SaidConcat DEF Everything
<1>7. n + (j - 1) + 1 = k /\ (j - 1) + 1 = j /\ k \in 1 .. n + K
  BY <1>1, <1>2
<1> HIDE DEF all, k
<1>8. all[k] = t
  BY <1>3, <1>5 DEF k
<1>9. SaidBefore(all, k) = Everything(B) \cup SaidBefore(w, j)
  BY <1>6, <1>7
<1>10. \A r : r \in InText(t) <=> \E i \in f + 1 .. u : r = <<p, i>>
  BY <1>2, <1>3, WindowText
\* What the windows before this one say: the first v runes of the paragraph.
<1>11. PICK v \in Nat : /\ SaidBefore(w, j) = RunesTo(p, v) /\ v < u
                        /\ j = 1 => f = 0
                        /\ j # 1 => /\ v = upTo[j - 1] /\ f = v - V
                                    /\ upTo[j - 1] = from[j - 1] + Z
  <2>1. CASE j = 1
    <3>1. SaidBefore(w, j) = {} /\ RunesTo(p, 0) = {}
      BY <2>1 DEF SaidBefore, RunesTo
    <3>2. 0 \in Nat /\ 0 < u
      BY <1>4
    <3> QED  BY <1>1, <1>3, <2>1, <3>1, <3>2
  <2>2. CASE j # 1
    <3>1. j \in 2 .. K /\ j - 1 \in 1 .. K /\ (j - 1) + 1 = j
      BY <1>1, <2>2
    <3>2. SaidBefore(w, j) = RunesTo(p, upTo[j - 1])
      BY <1>2, <3>1, WindowText
    <3>3. /\ upTo[j - 1] = from[j - 1] + c.ChunkSize
          /\ from[j] = upTo[j - 1] - c.ChunkOverlap
          /\ upTo[j - 1] < upTo[j] /\ upTo[j - 1] \in Nat
      BY <1>1, <3>1 DEF Windows
    <3> QED  BY <1>3, <2>2, <3>2, <3>3
  <2> QED  BY <2>1, <2>2
<1>12. SaidBefore(all, k) = Everything(B) \cup RunesTo(p, v)
  BY <1>9, <1>11
<1>13. \A r \in RunesUpTo(doc, p - 1) : r[1] < p /\ r # Gap /\ r[1] \in Nat
  BY ParagraphText DEF RunesUpTo, Rune
<1>14. Gap # <<p, 1>> /\ \A i : <<p, i>> # Gap /\ <<p, i>>[1] = p
  BY <1>2 DEF Gap
<1>15. Fits(c, all, k)
  <2>1. u - f \in 1 .. Z + V + 2 /\ ~ (u - f > Z)
    BY <1>2, <1>4
  <2>2. Len(all[k]) = u - f
    BY <1>4, <1>8
  <2> QED  BY <2>1, <2>2 DEF Fits
<1>16. \A r \in NewsOf(all, k) : \E i \in f + 1 .. u : r = <<p, i>> /\ i > v
  <2> SUFFICES ASSUME NEW r \in NewsOf(all, k)
               PROVE  \E i \in f + 1 .. u : r = <<p, i>> /\ i > v
    OBVIOUS
  <2>1. r \in InText(t) /\ r \notin RunesTo(p, v)
    BY <1>8, <1>12 DEF NewsOf
  <2>2. PICK i \in f + 1 .. u : r = <<p, i>>
    BY <1>10, <2>1
  <2>3. i \notin 1 .. v
    BY <2>1, <2>2 DEF RunesTo
  <2>4. i > v
    BY <1>4, <2>3
  <2> QED  BY <2>2, <2>4
<1>17. TextInOrder(all, k)
  <2> SUFFICES ASSUME NEW r \in NewsOf(all, k), NEW q \in SaidBefore(all, k) \ {Gap}
               PROVE  Follows(r, q)
    BY DEF TextInOrder
  <2>1. PICK i \in f + 1 .. u : r = <<p, i>> /\ i > v
    BY <1>16
  <2>2. r[1] = p /\ r[2] = i
    BY <2>1
  <2>3. CASE q \in RunesTo(p, v)
    <3>1. PICK m \in 1 .. v : q = <<p, m>>
      BY <2>3 DEF RunesTo
    <3>2. q[1] = p /\ q[2] = m /\ i > m
      BY <1>4, <1>11, <2>1, <3>1
    <3> QED  BY <2>2, <3>2 DEF Follows
  <2>4. CASE q \in Everything(B) \ {Gap}
    <3>1. q[1] < p /\ q[1] \in Nat
      BY <1>13, <2>4
    <3>2. p > q[1]
      BY <1>2, <3>1
    <3> QED  BY <2>2, <3>2 DEF Follows
  <2> QED  BY <1>12, <2>3, <2>4
<1>18. NewsOf(all, k) # {}
  <2>1. u \in f + 1 .. u /\ u \notin 1 .. v
    BY <1>4, <1>11
  <2>2. <<p, u>> \in InText(t)
    BY <1>10, <2>1
  <2>3. <<p, u>> \notin RunesTo(p, v)
    BY <2>1 DEF RunesTo
  <2>4. <<p, u>> \notin Everything(B)
    <3>1. ~ (p < p)
      BY <1>2
    <3> QED  BY <1>13, <1>14, <3>1
  <2> QED  BY <1>8, <1>12, <1>14, <2>2, <2>3, <2>4 DEF NewsOf
<1>19. ~ Echo(c, doc, all, k)
  <2>1. k \in 1 .. Len(all)
    BY <1>5, <1>7
  <2> QED  BY <1>5, <1>18, <2>1, EchoNoNews
<1>20. NewsOrEcho(c, doc, all, k)
  BY <1>18, <1>19 DEF NewsOrEcho
<1>21. Overlaps(c, doc, all, k)
  <2>1. SUFFICES ASSUME all[k][1][2] > 1
                 PROVE  SubSeq(all[k], 1, c.ChunkOverlap) = GetTail(c, all[k - 1])
    BY DEF Overlaps
  <2>2. j # 1
    <3>1. 1 \in 1 .. u - f
      BY <1>4
    <3>2. t[1] = <<p, f + 1>>
      BY <1>4, <3>1
    <3>3. f + 1 > 1
      BY <1>8, <2>1, <3>2
    <3> QED  BY <1>4, <1>11, <3>3
  <2>3. j - 1 \in 1 .. K /\ k - 1 = n + (j - 1)
    BY <1>1, <1>2, <2>2 DEF k
  <2>4. PICK s, g : s = w[j - 1] /\ g = from[j - 1]
    OBVIOUS
  <2>5. all[k - 1] = s
    BY <1>5, <2>3, <2>4
  <2>6. /\ g \in Nat /\ s \in Seq(Rune) /\ Len(s) = v - g
        /\ \A i \in 1 .. Len(s) : s[i] = <<p, g + i>>
    <3>1. w[j - 1] \in Seq(Rune)
      BY <1>1, <2>3, ElementOfSeq
    <3>2. from[j - 1] \in Nat /\ Len(w[j - 1]) = upTo[j - 1] - from[j - 1]
          /\ \A i \in 1 .. Len(w[j - 1]) : w[j - 1][i] = <<p, from[j - 1] + i>>
      BY <1>1, <2>3 DEF Windows
    <3> QED  BY <1>11, <2>2, <2>4, <3>1, <3>2
  <2>7. v = g + Z /\ f = v - V
    BY <1>11, <2>2, <2>4
  <2>8. Len(s) = Z
    BY <1>2, <2>6, <2>7
  <2>9. /\ GetTail(c, s) \in Seq(Rune) /\ Len(GetTail(c, s)) = V
        /\ \A i \in 1 .. V : GetTail(c, s)[i] = s[Z - V + i]
    <3>1. s # <<>>
      BY <1>2, <2>6, <2>8, TextIs
    <3>2. Len(s) >= V
      BY <1>2, <2>8
    <3>3. PICK y : y = GetTail(c, s)
      OBVIOUS
    <3>4. /\ y \in Seq(Rune) /\ Len(y) \in 1 .. c.ChunkOverlap
          /\ Len(s) >= c.ChunkOverlap => Len(y) = c.ChunkOverlap
          /\ \A i \in 1 .. Len(y) : y[i] = s[Len(s) - Len(y) + i]
      BY <2>6, <3>1, <3>3, TailIs
    <3>5. Len(y) = V
      BY <3>2, <3>4
    <3> HIDE DEF Z, V
    <3> QED  BY <2>8, <3>3, <3>4, <3>5
  <2>10. /\ SubSeq(t, 1, V) \in Seq(Rune) /\ Len(SubSeq(t, 1, V)) = V
         /\ \A i \in 1 .. V : SubSeq(t, 1, V)[i] = t[i]
    <3>1. V <= u - f
      BY <1>2, <1>4, <1>11, <2>7
    <3>2. 1 \in Int /\ V \in Int /\ 1 <= V /\ V - 1 + 1 = V
      BY <1>2
    <3>3. \A i \in 1 .. V : t[i] \in Rune
      <4>1. \A i \in 1 .. V : i \in 1 .. Len(t)
        BY <1>2, <1>4, <3>1
      <4> QED  BY <1>4, <4>1, ElementOfSeq
    <3>4. \A i \in 1 .. V : 1 + i - 1 = i
      OBVIOUS
    <3> HIDE DEF V
    <3>5. /\ SubSeq(t, 1, V) \in Seq(Rune) /\ Len(SubSeq(t, 1, V)) = V - 1 + 1
          /\ \A i \in 1 .. V - 1 + 1 : SubSeq(t, 1, V)[i] = t[1 + i - 1]
      BY <3>2, <3>3, SubSeqProperties
    <3> QED  BY <3>2, <3>4, <3>5
  <2>11. ASSUME NEW i \in 1 .. V PROVE t[i] = s[Z - V + i]
    <3>1. i \in 1 .. u - f
      BY <1>2, <1>4, <1>11, <2>7
    <3>2. t[i] = <<p, f + i>>
      BY <1>4, <3>1
    <3>3. Z - V + i \in 1 .. Len(s) /\ g + (Z - V + i) = f + i
      <4>1. Z \in Nat /\ V \in Nat /\ V < Z
        BY <1>2
      <4>2. g \in Nat /\ v = g + Z /\ f = v - V /\ Len(s) = Z
        BY <2>6, <2>7, <2>8
      <4> HIDE DEF Z, V
      <4>3. i \in Nat /\ 1 <= i /\ i <= V
        BY <4>1
      <4>4. Z - V + i \in 1 .. Z
        BY <4>1, <4>3
      <4>5. g + (Z - V + i) = f + i
        BY <4>1, <4>2, <4>3
      <4> QED  BY <4>2, <4>4, <4>5
    <3>4. s[Z - V + i] = <<p, g + (Z - V + i)>>
      BY <2>6, <3>3
    <3> QED  BY <3>2, <3>3, <3>4
  <2>12. SubSeq(t, 1, V) = GetTail(c, s)
    <3>1. PICK x, y : x = SubSeq(t, 1, V) /\ y = GetTail(c, s)
      OBVIOUS
    <3>2. /\ x \in Seq(Rune) /\ y \in Seq(Rune) /\ Len(x) = V /\ Len(y) = V
          /\ \A i \in 1 .. V : x[i] = y[i]
      BY <2>9, <2>10, <2>11, <3>1
    <3>3. x = y
      BY <3>2, SeqEqual
    <3> QED  BY <3>1, <3>3
  <2> QED  BY <1>8, <2>5, <2>12
<1>22. Headed(c, doc, all, k)
  <2> SUFFICES ASSUME NEW r \in InText(t) PROVE doc[r[1]].runes > c.ChunkSize
    BY <1>8 DEF Headed
  <2>1. r[1] = p
    BY <1>10
  <2> QED  BY <2>1
<1> QED  BY <1>15, <1>17, <1>20, <1>21, <1>22 DEF ChunkGood, all, k, n

\* The tail flushed right before the windows w of a long paragraph is an echo.
LEMMA EchoGood ==
  ASSUME NEW c \in Chunkers, NEW doc \in Documents, NEW p \in DOMAIN doc,
         doc[p].runes > c.ChunkSize, c.ChunkOverlap < c.ChunkSize,
         NEW all \in Seq(Seq(Rune)), NEW k \in Nat, k > 1, k < Len(all), all[k - 1] # <<>>,
         all[k] = GetTail(c, all[k - 1]), all[k + 1][1] = <<p, 1>>
  PROVE  ChunkGood(c, doc, all, k)
PROOF
<1>1. p \in Nat \ {0} /\ Len(all) \in Nat
  BY ParagraphIs, LenProperties
<1>2. k \in 1 .. Len(all) /\ k - 1 \in 1 .. Len(all)
  <2>1. PICK n \in Nat : n = Len(all)
    BY <1>1
  <2>2. k \in 1 .. n /\ k - 1 \in 1 .. n
    BY <2>1
  <2> QED  BY <2>1, <2>2
<1>3. PICK s, t : s = all[k - 1] /\ t = all[k]
  OBVIOUS
<1>4. s \in Seq(Rune) /\ s # <<>> /\ t = GetTail(c, s)
  BY <1>2, <1>3, ElementOfSeq
<1>5. Len(t) \in 1 .. c.ChunkOverlap
  BY <1>4, TailIs
<1>6. Echo(c, doc, all, k)
  <2>1. all[k + 1][1] # Gap
    BY <1>1 DEF Gap
  <2> QED  BY <2>1 DEF Echo
<1>7. NewsOf(all, k) = {}
  BY <1>2, <1>6, EchoNoNews
<1>8. Fits(c, all, k)
  <2>1. c.ChunkSize \in Nat /\ c.ChunkOverlap \in Nat
    BY DEF Chunkers
  <2>2. Len(t) \in 1 .. c.ChunkSize + c.ChunkOverlap + 2 /\ ~ (Len(t) > c.ChunkSize)
    <3>1. PICK l, Z, V : l = Len(t) /\ Z = c.ChunkSize /\ V = c.ChunkOverlap
      OBVIOUS
    <3>2. l \in 1 .. V /\ Z \in Nat /\ V \in Nat /\ V < Z
      BY <1>5, <2>1, <3>1
    <3>3. l \in 1 .. Z + V + 2 /\ ~ (l > Z)
      BY <3>2
    <3> QED  BY <3>1, <3>3
  <2> QED  BY <1>3, <2>2 DEF Fits
<1>9. TextInOrder(all, k)
  BY <1>7 DEF TextInOrder
<1>10. NewsOrEcho(c, doc, all, k)
  BY <1>6, <1>7 DEF NewsOrEcho
<1>11. Overlaps(c, doc, all, k)
  BY <1>6 DEF Overlaps
<1>12. Headed(c, doc, all, k)
  BY DEF Headed
<1> QED  BY <1>8, <1>9, <1>10, <1>11, <1>12 DEF ChunkGood

\* The chunks complete before the windows w of a long paragraph.
LEMMA BeforeWindows ==
  ASSUME NEW c \in Chunkers, NEW doc \in Documents, NEW p \in DOMAIN doc,
         doc[p].runes > c.ChunkSize, c.ChunkOverlap < c.ChunkSize,
         NEW made, ChunkInv(c, doc, made, p - 1),
         NEW w \in Seq(Seq(Rune)), Len(w) > 0, w[1][1] = <<p, 1>>
  PROVE  LET B == AllOf(Flushed(c, doc, made, p)) IN
         /\ B \in Seq(Seq(Rune)) /\ Everything(B) \ {Gap} = RunesUpTo(doc, p - 1)
         /\ \A k \in 1 .. Len(B) : ChunkGood(c, doc, B \o w, k)
PROOF
<1> DEFINE chunks == made.chunks
           current == made.current
           then == Flushed(c, doc, made, p)
           B == AllOf(then)
<1>1. made \in Building /\ chunks \in Seq(Seq(Rune)) /\ current \in Seq(Rune)
  BY DEF ChunkInv, Building
<1>2. /\ \A k \in 1 .. Len(chunks) : ChunkGood(c, doc, chunks, k)
      /\ current # <<>> => ChunkGood(c, doc, Append(chunks, current), Len(chunks) + 1)
      /\ Everything(AllOf(made)) \ {Gap} = RunesUpTo(doc, p - 1)
  BY DEF ChunkInv
<1>3. then = IF Flushes(c, doc, made, p)
             THEN [chunks |-> Append(chunks, current), current |-> GetTail(c, current)]
             ELSE made
  BY DEF Flushed
<1>4. Flushes(c, doc, made, p) <=> current # <<>>
  <2>1. BytesOf(doc, current) \in Nat
    BY <1>1, BytesBound
  <2>2. Len(Paragraph(doc, p)) = doc[p].runes /\ doc[p].runes \in Nat /\ c.ChunkSize \in Nat
    BY ParagraphIs DEF Chunkers
  <2>3. PICK b, L : b = BytesOf(doc, current) /\ L = doc[p].runes
    OBVIOUS
  <2>4. b + L + 2 > c.ChunkSize
    BY <2>1, <2>2, <2>3
  <2> QED  BY <2>2, <2>3, <2>4 DEF Flushes
<1>5. AllOf(made) = IF current = <<>> THEN chunks ELSE Append(chunks, current)
  BY DEF AllOf
<1>6. B = IF then.current = <<>> THEN then.chunks ELSE Append(then.chunks, then.current)
  BY DEF AllOf
<1> HIDE DEF chunks, current, then, B
<1>7. CASE current = <<>>
  <2>1. B = chunks
    BY <1>3, <1>4, <1>6, <1>7 DEF chunks, current
  <2>2. Everything(B) \ {Gap} = RunesUpTo(doc, p - 1)
    BY <1>2, <1>5, <1>7, <2>1
  <2>3. /\ B \o w \in Seq(Seq(Rune)) /\ Len(B) <= Len(B \o w)
        /\ \A j \in 1 .. Len(B) : (B \o w)[j] = B[j]
    <3>1. PICK S : S = Seq(Rune)
      OBVIOUS
    <3>2. B \in Seq(S) /\ w \in Seq(S)
      BY <1>1, <2>1, <3>1
    <3>3. /\ B \o w \in Seq(S) /\ Len(B \o w) = Len(B) + Len(w)
          /\ \A i \in 1 .. Len(B) : (B \o w)[i] = B[i]
      BY <3>2, ConcatIs
    <3>4. Len(B) \in Nat /\ Len(w) \in Nat
      BY <3>2, LenProperties
    <3> QED  BY <3>1, <3>3, <3>4
  <2>4. ASSUME NEW k \in 1 .. Len(B) PROVE ChunkGood(c, doc, B \o w, k)
    <3>1. ChunkGood(c, doc, B, k) /\ B \in Seq(Seq(Rune))
      BY <1>1, <1>2, <2>1
    <3> QED  BY <2>3, <3>1, GoodKept
  <2> QED  BY <1>1, <2>1, <2>2, <2>4 DEF B, then
<1>8. CASE current # <<>>
  <2> DEFINE base == Append(chunks, current)
             tail == GetTail(c, current)
             n == Len(base)
             all == B \o w
  <2>1. then.chunks = base /\ then.current = tail
    BY <1>3, <1>4, <1>8
  <2>2. tail \in Seq(Rune) /\ tail # <<>> /\ InText(tail) \subseteq InText(current)
    BY <1>1, <1>8, TailIs
  <2>3. B = Append(base, tail)
    BY <1>6, <2>1, <2>2
  <2>4. base \in Seq(Seq(Rune)) /\ n \in Nat /\ n > 0 /\ base[n] = current
    <3>1. /\ Len(chunks) \in Nat /\ base \in Seq(Seq(Rune)) /\ Len(base) = Len(chunks) + 1
          /\ base[Len(chunks) + 1] = current
      BY <1>1, AppendIs
    <3> HIDE DEF base
    <3>2. Len(chunks) + 1 > 0 /\ Len(chunks) + 1 \in Nat
      BY <3>1
    <3> QED  BY <3>1, <3>2
  <2>5. \A k \in 1 .. n : ChunkGood(c, doc, base, k)
    BY <1>1, <1>2, <1>8, AllGood
  <2>6. Everything(base) = Everything(chunks) \cup InText(current)
    BY <1>1, EverythingAppended
  <2>7. Everything(base) \ {Gap} = RunesUpTo(doc, p - 1)
    BY <1>2, <1>5, <1>8
  <2> HIDE DEF base, tail
  <2>8. /\ B \in Seq(Seq(Rune)) /\ Len(B) = n + 1 /\ B[n + 1] = tail
        /\ \A j \in 1 .. n : B[j] = base[j]
    BY <2>2, <2>3, <2>4, AppendIs
  <2>9. Everything(B) \ {Gap} = RunesUpTo(doc, p - 1)
    <3>1. Everything(B) = Everything(base) \cup InText(tail)
      BY <2>2, <2>3, <2>4, EverythingAppended
    <3> QED  BY <2>2, <2>6, <2>7, <3>1
  <2>10. /\ all \in Seq(Seq(Rune)) /\ Len(all) = n + 1 + Len(w)
         /\ \A j \in 1 .. n + 1 : all[j] = B[j]
         /\ \A j \in 1 .. Len(w) : all[n + 1 + j] = w[j]
    <3>1. PICK S : S = Seq(Rune)
      OBVIOUS
    <3>2. B \in Seq(S) /\ w \in Seq(S)
      BY <2>8, <3>1
    <3>3. /\ all \in Seq(S) /\ Len(all) = Len(B) + Len(w)
          /\ \A i \in 1 .. Len(B) : all[i] = B[i]
          /\ \A i \in 1 .. Len(w) : all[Len(B) + i] = w[i]
      BY <3>2, ConcatIs
    <3> HIDE DEF all, n
    <3> QED  BY <2>8, <3>1, <3>3
  <2>11. Len(w) \in Nat /\ 1 \in 1 .. Len(w)
    BY LenProperties
  <2> HIDE DEF all, n
  <2>12. ASSUME NEW k \in 1 .. n PROVE ChunkGood(c, doc, all, k)
    <3>1. Len(base) <= Len(all)
      BY <2>4, <2>10, <2>11 DEF n
    <3>2. \A j \in 1 .. n : j \in 1 .. n + 1
      BY <2>4
    <3>3. \A j \in 1 .. Len(base) : all[j] = base[j]
      BY <2>8, <2>10, <3>2 DEF n
    <3>4. k \in 1 .. Len(base) /\ ChunkGood(c, doc, base, k)
      BY <2>5 DEF n
    <3> QED  BY <2>4, <2>10, <3>1, <3>3, <3>4, GoodKept
  <2>13. ChunkGood(c, doc, all, n + 1)
    <3>1. PICK k \in Nat : k = n + 1
      BY <2>4
    <3>2. k > 1 /\ k < Len(all) /\ k - 1 = n /\ n \in 1 .. n + 1 /\ k \in 1 .. n + 1
      BY <2>4, <2>10, <2>11, <3>1
    <3>3. all[k - 1] = current
      <4>1. n \in 1 .. n
        BY <2>4
      <4> QED  BY <2>4, <2>8, <2>10, <3>2, <4>1
    <3>4. all[k] = tail
      BY <2>8, <2>10, <3>1, <3>2
    <3>5. all[k + 1][1] = <<p, 1>>
      BY <2>10, <2>11, <3>1
    <3>6. all[k] = GetTail(c, all[k - 1]) /\ all[k - 1] # <<>>
      BY <1>8, <3>3, <3>4 DEF tail
    <3>7. ChunkGood(c, doc, all, k)
      BY <2>10, <3>2, <3>5, <3>6, EchoGood
    <3> QED  BY <3>1, <3>7
  <2>14. \A k \in 1 .. n + 1 : k \in 1 .. n \/ k = n + 1
    BY <2>4
  <2>15. \A k \in 1 .. Len(B) : ChunkGood(c, doc, all, k)
    BY <2>8, <2>12, <2>13, <2>14
  <2> QED  BY <2>8, <2>9, <2>15 DEF all, B, then
<1> QED  BY <1>7, <1>8

LEMMA LongStep ==
  ASSUME NEW c \in Chunkers, NEW doc \in Documents, Splittable(c, doc), NEW p \in DOMAIN doc,
         doc[p].runes # 0, doc[p].runes > c.ChunkSize, NEW made, ChunkInv(c, doc, made, p - 1)
  PROVE  ChunkInv(c, doc, AddParagraph(c, doc, made, p), p)
PROOF
<1> DEFINE L == doc[p].runes
           B == AllOf(Flushed(c, doc, made, p))
           w == SplitBySize(c, Paragraph(doc, p))
           all == B \o w
           next == [chunks |-> all, current |-> <<>>]
<1>1. made \in Building
  BY DEF ChunkInv
<1>2. AddParagraph(c, doc, made, p) = next
  BY <1>1, AddParagraphCases
<1>3. c.ChunkOverlap < c.ChunkSize /\ \E K, from, upTo : Windows(c, p, L, w, K, from, upTo)
  BY LongWindows
<1>4. PICK K, from, upTo : Windows(c, p, L, w, K, from, upTo)
  BY <1>3
<1> HIDE DEF w
<1>5. /\ K \in Nat \ {0} /\ w \in Seq(Seq(Rune)) /\ Len(w) = K /\ upTo[K] = L /\ from[1] = 0
      /\ from \in [1 .. K -> Nat] /\ upTo \in [1 .. K -> Nat]
      /\ from[1] < upTo[1] /\ Len(w[1]) = upTo[1] - from[1]
      /\ \A i \in 1 .. Len(w[1]) : w[1][i] = <<p, from[1] + i>>
  <2>1. K \in Nat \ {0}
    BY <1>4 DEF Windows
  <2>2. 1 \in 1 .. K
    BY <2>1
  <2> QED  BY <1>4, <2>1, <2>2 DEF Windows
<1>6. Len(w) > 0 /\ w[1][1] = <<p, 1>> /\ K \in 1 .. K /\ K \in 0 .. Len(w)
  <2>1. 1 \in 1 .. K
    BY <1>5
  <2>2. upTo[1] \in Nat
    BY <1>5, <2>1
  <2>3. 1 \in 1 .. Len(w[1]) /\ from[1] + 1 = 1
    BY <1>5, <2>2
  <2> QED  BY <1>5, <2>3
<1>7. /\ B \in Seq(Seq(Rune)) /\ Everything(B) \ {Gap} = RunesUpTo(doc, p - 1)
      /\ \A k \in 1 .. Len(B) : ChunkGood(c, doc, all, k)
  BY <1>3, <1>5, <1>6, BeforeWindows
<1> HIDE DEF B
<1>8. \A j \in 1 .. K : ChunkGood(c, doc, all, Len(B) + j)
  BY <1>3, <1>4, <1>7, WindowsGood
<1>9. all \in Seq(Seq(Rune)) /\ Len(all) = Len(B) + K /\ Len(B) \in Nat
  <2>1. PICK S : S = Seq(Rune)
    OBVIOUS
  <2>2. B \in Seq(S) /\ w \in Seq(S)
    BY <1>5, <1>7, <2>1
  <2>3. all \in Seq(S) /\ Len(all) = Len(B) + Len(w)
    BY <2>2, ConcatIs
  <2>4. Len(B) \in Nat
    BY <2>2, LenProperties
  <2> HIDE DEF all
  <2> QED  BY <1>5, <2>1, <2>3, <2>4
<1>10. Everything(all) = Everything(B) \cup RunesTo(p, L)
  <2>1. SaidBefore(all, Len(B) + K + 1) = Everything(B) \cup SaidBefore(w, K + 1)
    <3>1. B \in Seq(Seq(Rune)) /\ w \in Seq(Seq(Rune)) /\ K \in 0 .. Len(w)
      BY <1>5, <1>6, <1>7
    <3> QED  BY <3>1, SaidConcat DEF Everything
  <2>2. L \in Nat /\ p \in Nat
    BY ParagraphIs
  <2>3. SaidBefore(w, K + 1) = RunesTo(p, L)
    <3>1. PICK l : l = L
      OBVIOUS
    <3>2. l \in Nat /\ p \in Nat /\ Windows(c, p, l, w, K, from, upTo)
      BY <1>4, <2>2, <3>1
    <3>3. \A k \in 1 .. K : SaidBefore(w, k + 1) = RunesTo(p, upTo[k])
      BY <3>2, WindowText
    <3> QED  BY <1>5, <1>6, <3>1, <3>3
  <2> HIDE DEF all
  <2> QED  BY <1>9, <2>1, <2>3 DEF Everything
<1> HIDE DEF all
<1>11. \A k \in 1 .. Len(all) : ChunkGood(c, doc, all, k)
  <2> SUFFICES ASSUME NEW k \in 1 .. Len(B) + K PROVE ChunkGood(c, doc, all, k)
    BY <1>9
  <2>1. CASE k \in 1 .. Len(B)
    BY <1>7, <2>1
  <2>2. CASE k \notin 1 .. Len(B)
    <3>1. PICK j \in 1 .. K : k = Len(B) + j
      <4>1. k - Len(B) \in 1 .. K /\ k = Len(B) + (k - Len(B))
        BY <1>5, <1>9, <2>2
      <4> QED  BY <4>1
    <3> QED  BY <1>8, <3>1
  <2> QED  BY <2>1, <2>2
<1>12. Everything(all) \ {Gap} = RunesUpTo(doc, p)
  <2>1. /\ RunesUpTo(doc, p) = RunesUpTo(doc, p - 1) \cup RunesTo(p, L)
        /\ \A r \in RunesTo(p, L) : r # Gap
    BY ParagraphText
  <2> HIDE DEF L
  <2> QED  BY <1>7, <1>10, <2>1
<1>13. next \in Building /\ next.chunks = all /\ next.current = <<>> /\ AllOf(next) = all
  <2>1. <<>> \in Seq(Rune)
    OBVIOUS
  <2> QED  BY <1>9, <2>1 DEF Building, AllOf
<1> HIDE DEF next
<1>14. ChunkInv(c, doc, next, p)
  BY <1>11, <1>12, <1>13 DEF ChunkInv
<1> QED  BY <1>2, <1>14

LEMMA ChunkStep ==
  ASSUME NEW c \in Chunkers, NEW doc \in Documents, Splittable(c, doc), NEW p \in DOMAIN doc,
         NEW made, ChunkInv(c, doc, made, p - 1)
  PROVE  ChunkInv(c, doc, AddParagraph(c, doc, made, p), p)
PROOF
<1>1. CASE doc[p].runes = 0
  <2>1. made \in Building
    BY DEF ChunkInv
  <2>2. AddParagraph(c, doc, made, p) = made
    BY <1>1, <2>1, AddParagraphCases
  <2>3. RunesUpTo(doc, p) = RunesUpTo(doc, p - 1)
    <3>1. RunesTo(p, doc[p].runes) = {}
      BY <1>1 DEF RunesTo
    <3> QED  BY <3>1, ParagraphText
  <2> QED  BY <2>2, <2>3 DEF ChunkInv
<1>2. CASE doc[p].runes # 0 /\ doc[p].runes > c.ChunkSize
  BY <1>2, LongStep
<1>3. CASE doc[p].runes # 0 /\ ~ (doc[p].runes > c.ChunkSize)
  BY <1>3, ShortStep
<1> QED  BY <1>1, <1>2, <1>3

LEMMA NoChunksInv ==
  ASSUME NEW c, NEW doc
  PROVE  ChunkInv(c, doc, NoChunks, 0)
PROOF
<1>1. /\ NoChunks.chunks = <<>> /\ NoChunks.current = <<>> /\ NoChunks \in Building
      /\ AllOf(NoChunks) = <<>>
  BY DEF NoChunks, Building, AllOf
<1>2. Everything(<<>>) = {}
  BY DEF Everything, SaidBefore
<1>3. RunesUpTo(doc, 0) = {}
  BY DEF RunesUpTo
<1> QED  BY <1>1, <1>2, <1>3 DEF ChunkInv

\* Every chunk of a document is good, and the chunks say what the document says.
LEMMA DocumentRead ==
  ASSUME NEW c \in Chunkers, NEW doc \in Documents, Splittable(c, doc)
  PROVE  LET chunks == ChunkDocument(c, doc) IN
         /\ chunks \in Seq(Seq(Rune))
         /\ Everything(chunks) \ {Gap} = RunesUpTo(doc, Len(doc))
         /\ \A k \in 1 .. Len(chunks) : ChunkGood(c, doc, chunks, k)
PROOF
<1> DEFINE N == Len(doc)
<1>1. N \in Nat /\ DOMAIN doc = 1 .. N
  BY LenProperties DEF Documents
<1>2. PICK h : /\ h[0] = NoChunks /\ h[N] = Built(c, doc)
               /\ \A k \in 1 .. N : h[k] = AddParagraph(c, doc, h[k - 1], k)
  BY ChunkSteps
<1> HIDE DEF N
<1> DEFINE G == {k \in 0 .. N : ChunkInv(c, doc, h[k], k)}
<1>3. 0 \in G
  BY <1>1, <1>2, NoChunksInv
<1>4. ASSUME NEW k \in 1 .. N, k - 1 \in G PROVE k \in G
  <2>1. ChunkInv(c, doc, h[k - 1], k - 1)
    BY <1>4
  <2>2. ChunkInv(c, doc, AddParagraph(c, doc, h[k - 1], k), k)
    BY <1>1, <2>1, ChunkStep
  <2>3. k \in 0 .. N
    BY <1>1
  <2> QED  BY <1>2, <2>2, <2>3
<1>5. N \in G
  <2> HIDE DEF G
  <2>1. Climbs(G, N)
    BY <1>3, <1>4 DEF Climbs
  <2>2. N \in 0 .. N
    BY <1>1
  <2> QED  BY <1>1, <2>1, <2>2, UpTo
<1>6. PICK made : made = Built(c, doc)
  OBVIOUS
<1>7. ChunkInv(c, doc, made, N)
  BY <1>2, <1>5, <1>6
<1>8. ChunkDocument(c, doc) = AllOf(made)
  BY <1>6, ChunkFold
<1>9. AllOf(made) \in Seq(Seq(Rune))
  BY <1>7, AllOfTyped DEF ChunkInv
<1>10. \A k \in 1 .. Len(AllOf(made)) : ChunkGood(c, doc, AllOf(made), k)
  <2>1. made.chunks \in Seq(Seq(Rune)) /\ made.current \in Seq(Rune)
    BY <1>7 DEF ChunkInv, Building
  <2>2. CASE made.current = <<>>
    BY <1>7, <2>2 DEF ChunkInv, AllOf
  <2>3. CASE made.current # <<>>
    <3>1. AllOf(made) = Append(made.chunks, made.current)
      BY <2>3 DEF AllOf
    <3>2. /\ \A k \in 1 .. Len(made.chunks) : ChunkGood(c, doc, made.chunks, k)
          /\ ChunkGood(c, doc, Append(made.chunks, made.current), Len(made.chunks) + 1)
      BY <1>7, <2>3 DEF ChunkInv
    <3>3. \A k \in 1 .. Len(Append(made.chunks, made.current)) :
            ChunkGood(c, doc, Append(made.chunks, made.current), k)
      BY <2>1, <3>2, AllGood
    <3> QED  BY <3>1, <3>3
  <2> QED  BY <2>2, <2>3
<1> QED  BY <1>7, <1>8, <1>9, <1>10 DEF ChunkInv, N

LEMMA RunesRead ==
  ASSUME NEW doc \in Documents
  PROVE  RunesOf(doc) = RunesUpTo(doc, Len(doc))
PROOF
<1>1. DOMAIN doc = 1 .. Len(doc) /\ Len(doc) \in Nat
  BY LenProperties DEF Documents
<1>2. ASSUME NEW r \in RunesOf(doc) PROVE r \in RunesUpTo(doc, Len(doc))
  <2>1. PICK p \in DOMAIN doc : \E i \in 1 .. doc[p].runes : r = <<p, i>>
    BY DEF RunesOf
  <2>2. PICK i \in 1 .. doc[p].runes : r = <<p, i>>
    BY <2>1
  <2>3. doc[p].runes \in Nat /\ p \in Nat
    BY ParagraphIs
  <2>4. r \in Rune /\ r[1] = p /\ r[2] = i
    BY <2>2, <2>3 DEF Rune
  <2> QED  BY <1>1, <2>4 DEF RunesUpTo
<1>3. ASSUME NEW r \in RunesUpTo(doc, Len(doc)) PROVE r \in RunesOf(doc)
  <2>1. r \in Rune /\ r[1] \in DOMAIN doc /\ r[2] \in 1 .. doc[r[1]].runes
    BY <1>1 DEF RunesUpTo
  <2>2. r = <<r[1], r[2]>>
    BY <2>1 DEF Rune
  <2> QED  BY <2>1, <2>2 DEF RunesOf
<1> QED  BY <1>2, <1>3

\* Whatever the settings, every rune of every document is in some chunk, in the order of
\* the document; the chunks keep their bounds, share ChunkOverlap runes where a long
\* paragraph is split, and what one run stores is every text once
\* (knowledge/chunking.go, ingestion/dedup.go).
THEOREM ChunksRead ==
  ASSUME NEW size \in Int, NEW overlap \in Int, NEW doc \in Documents
  PROVE  ChunksAgree(size, overlap, doc)
PROOF
<1> DEFINE c == RecursiveChunker(size, overlap)
           chunks == ChunkDocument(c, doc)
<1>1. c \in Chunkers
  BY ChunkerTyped
<1> HIDE DEF c
<1> SUFFICES ASSUME Splittable(c, doc)
             PROVE  /\ SaidBefore(chunks, Len(chunks) + 1) \ {Gap} = RunesOf(doc)
                    /\ \A k \in DOMAIN chunks : ChunkAgrees(c, doc, chunks, k)
                    /\ InText(NotSeen(chunks)) = InText(chunks) /\ IsInjective(NotSeen(chunks))
  BY DEF ChunksAgree, c
<1>2. /\ chunks \in Seq(Seq(Rune))
      /\ Everything(chunks) \ {Gap} = RunesUpTo(doc, Len(doc))
      /\ \A k \in 1 .. Len(chunks) : ChunkGood(c, doc, chunks, k)
  BY <1>1, DocumentRead
<1> HIDE DEF chunks
<1>3. SaidBefore(chunks, Len(chunks) + 1) \ {Gap} = RunesOf(doc)
  BY <1>2, RunesRead DEF Everything
<1>4. DOMAIN chunks = 1 .. Len(chunks)
  BY <1>2, LenProperties
<1>5. \A k \in DOMAIN chunks : ChunkAgrees(c, doc, chunks, k)
  BY <1>2, <1>4, AgreesParts DEF ChunkGood
<1>6. InText(NotSeen(chunks)) = InText(chunks) /\ IsInjective(NotSeen(chunks))
  BY <1>2, KeptTexts
<1> QED  BY <1>3, <1>5, <1>6

\* The heading of a sheet is in every chunk with rows of the sheet, but for the later
\* windows of a sheet longer than a chunk and for a tail that begins a chunk, however
\* many sheets and rows there are (ingestion/parser.go's ParseXLSX with chunking.go).
THEOREM SheetsRead ==
  ASSUME NEW size \in Int, NEW overlap \in Int, NEW sheets \in Seq(Seq({"text", "blank"}))
  PROVE  SheetsAgree(size, overlap, sheets)
PROOF
<1> DEFINE c == RecursiveChunker(size, overlap)
           doc == ParseXLSX(sheets)
           chunks == ChunkDocument(c, doc)
<1>1. c \in Chunkers
  BY ChunkerTyped
<1>2. doc \in Documents
  <2>1. DOMAIN sheets = 1 .. Len(sheets) /\ Len(sheets) \in Nat
    BY LenProperties
  <2>2. ASSUME NEW s \in DOMAIN sheets
        PROVE  Cardinality({r \in DOMAIN sheets[s] : sheets[s][r] = "text"}) \in Nat
    <3>1. sheets[s] \in Seq({"text", "blank"})
      BY <2>1, ElementOfSeq
    <3>2. DOMAIN sheets[s] = 1 .. Len(sheets[s]) /\ Len(sheets[s]) \in Nat
      BY <3>1, LenProperties
    <3>3. IsFiniteSet(DOMAIN sheets[s])
      BY <3>2, FS_Interval
    <3>4. IsFiniteSet({r \in DOMAIN sheets[s] : sheets[s][r] = "text"})
      BY <3>3, FS_Subset
    <3> QED  BY <3>4, FS_CardinalityType
  <2>3. \A s \in DOMAIN sheets :
          1 + Cardinality({r \in DOMAIN sheets[s] : sheets[s][r] = "text"}) \in Nat
    BY <2>2
  <2>4. doc \in [1 .. Len(sheets) -> [runes : Nat, wide : BOOLEAN]]
    BY <2>1, <2>3 DEF ParseXLSX
  <2> HIDE DEF doc
  <2> QED  BY <2>1, <2>4, FunctionIsSeq DEF Documents
<1> HIDE DEF c, doc
<1> SUFFICES ASSUME Splittable(c, doc)
             PROVE  \A k \in DOMAIN chunks : Headed(c, doc, chunks, k)
  BY DEF SheetsAgree, Headed, c, doc
<1>3. /\ chunks \in Seq(Seq(Rune))
      /\ \A k \in 1 .. Len(chunks) : ChunkGood(c, doc, chunks, k)
  BY <1>1, <1>2, DocumentRead
<1> HIDE DEF chunks
<1>4. DOMAIN chunks = 1 .. Len(chunks)
  BY <1>3, LenProperties
<1> QED  BY <1>3, <1>4 DEF ChunkGood
==============================================================================
