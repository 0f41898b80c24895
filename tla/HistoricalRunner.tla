-------------------------- MODULE HistoricalRunner --------------------------
(***************************************************************************)
(* What the two replays have in common: the files of raw messages that a   *)
(* MarketDataLogger writes, one for each day, and the loop of a historical *)
(* runner over them.  The extending modules say what a line is and what    *)
(* reading it does.                                                        *)
(*                                                                         *)
(* First a persister records, then a runner runs.  A `live' processor that *)
(* hears the messages as they are recorded is what a replay is measured    *)
(* by: with each line, the files of the model keep what it had made of it. *)
(***************************************************************************)
EXTENDS Naturals, Sequences, FiniteSets

LOCAL Sets == INSTANCE FiniteSetsExt

CONSTANTS
  FirstDate,    (* when recording starts, as [mon, day]                     *)
  MonthLength,  (* days of a month; months are counted on past 12           *)
  MaxDays,      (* bound: days recorded                                     *)
  MaxLines      (* bound: lines recorded                                    *)

Dates == [mon : Nat, day : Nat]

ASSUME HistoricalRunnerAssumption ==
  /\ FirstDate \in Dates /\ FirstDate.day \in 1 .. MonthLength
  /\ MonthLength \in 28 .. 31
  /\ MaxDays \in Nat \ {0} /\ MaxLines \in Nat

VARIABLES
  files,        (* the recorded files: date -> sequence of [line, live]     *)
  today,        (* the date that is recorded                                *)
  live,         (* the live processor                                       *)
  md,           (* the runner's processor                                   *)
  stage,        (* recording, priming, opening, reading or done             *)
  fromStart,    (* the option from_start                                    *)
  startDate,    (* the options start_date ...                               *)
  endDate,      (* ... and end_date                                         *)
  currentDate,  (* the day in hand                                          *)
  pos           (* how many lines of its file were read                     *)

optionVars == <<fromStart, startDate, endDate>>

recordVars == <<files, today, live>>

RunnerInit ==
  /\ files = [d \in {} |-> <<>>] /\ today = FirstDate
  /\ stage = "recording" /\ pos = 0
  /\ fromStart = FALSE
  /\ startDate = FirstDate /\ endDate = FirstDate /\ currentDate = FirstDate

RunnerTypeOK(Lines, Marks) ==
  /\ DOMAIN files \subseteq Dates
  /\ \A d \in DOMAIN files : \A i \in 1 .. Len(files[d]) :
       files[d][i].line \in Lines /\ files[d][i].live \in Marks
  /\ {today, startDate, endDate, currentDate} \subseteq Dates
  /\ stage \in {"recording", "priming", "opening", "reading", "done"}
  /\ fromStart \in BOOLEAN
  /\ stage = "reading" => currentDate \in DOMAIN files /\ pos \in 0 .. Len(files[currentDate])

-----------------------------------------------------------------------------
(* writeToLog: the line goes to the file of the day, which is created if   *)
(* it is not there; s is what the line makes of the live processor.        *)
Recorded(d) == IF d \in DOMAIN files THEN files[d] ELSE <<>>

WriteToLog(line, s, mark) ==
  /\ stage = "recording"
  /\ Sets!MapThenSumSet(LAMBDA d : Len(files[d]), DOMAIN files) < MaxLines
  /\ files' = [d \in DOMAIN files \cup {today} |->
                 IF d = today THEN Append(Recorded(d), [line |-> line, live |-> mark])
                              ELSE files[d]]
  /\ live' = s
  /\ UNCHANGED <<today, md, stage, optionVars, currentDate, pos>>

(* The next day; recording never pauses for a whole one.                   *)
DayAfter(d) == IF d.day = MonthLength THEN [mon |-> d.mon + 1, day |-> 1]
                                      ELSE [d EXCEPT !.day = @ + 1]

Midnight ==
  /\ stage = "recording"
  /\ today \in DOMAIN files
  /\ Cardinality(DOMAIN files) < MaxDays
  /\ today' = DayAfter(today)
  /\ UNCHANGED <<files, live, md, stage, optionVars, currentDate, pos>>

-----------------------------------------------------------------------------
(* The runner starts, with some recorded day as start_date and a later day *)
(* as end_date.  Without from_start it prepares its state from the file of *)
(* the day before; mktime makes a date of day 0.                           *)
DayBefore(d) == IF d.day = 1 THEN [mon |-> d.mon - 1, day |-> MonthLength]
                             ELSE [d EXCEPT !.day = @ - 1]

Start ==
  /\ stage = "recording"
  /\ startDate' \in DOMAIN files
  /\ endDate' \in {DayAfter(startDate'), DayAfter(today)}
  /\ currentDate' = startDate'
  /\ fromStart' \in BOOLEAN
  /\ stage' = IF fromStart' THEN "opening" ELSE "priming"
  /\ UNCHANGED <<recordVars, md, pos>>

(* findValidFilePath: from the 28th on, a date without a file stands for   *)
(* the first of the next month.  The file found need not exist.            *)
ValidDate(d) ==
  IF d \in DOMAIN files \/ d.day < 28 THEN d ELSE [mon |-> d.mon + 1, day |-> 1]

(* Priming finds nothing to start from, and the runner exits.              *)
Exit ==
  /\ stage' = "done"
  /\ UNCHANGED <<recordVars, md, optionVars, currentDate, pos>>

PreviousDate == ValidDate(DayBefore(startDate))

PrimesWith(s) ==
  /\ md' = s
  /\ stage' = "opening"
  /\ UNCHANGED <<recordVars, optionVars, currentDate, pos>>

-----------------------------------------------------------------------------
(* The loop: a file is opened, read line by line, and done.                *)
FileDate == ValidDate(currentDate)

NoFile ==
  /\ stage = "opening"
  /\ FileDate \notin DOMAIN files
  /\ Exit

OpensWith(s) ==
  /\ stage = "opening"
  /\ FileDate \in DOMAIN files
  /\ currentDate' = FileDate
  /\ md' = s
  /\ stage' = "reading" /\ pos' = 0
  /\ UNCHANGED <<recordVars, optionVars>>

NextEntry == files[currentDate][pos + 1]

ReadsLine(s) ==
  /\ stage = "reading"
  /\ pos < Len(files[currentDate])
  /\ md' = s
  /\ pos' = pos + 1
  /\ UNCHANGED <<recordVars, stage, optionVars, currentDate>>

(* The day of the date is counted on, past the end of the month too, which *)
(* findValidFilePath mends, and then compared with end_date.               *)
FileDone ==
  /\ stage = "reading"
  /\ pos = Len(files[currentDate])
  /\ currentDate' = [currentDate EXCEPT !.day = @ + 1]
  /\ stage' = IF currentDate' = endDate THEN "done" ELSE "opening"
  /\ UNCHANGED <<recordVars, md, optionVars, pos>>
=============================================================================
