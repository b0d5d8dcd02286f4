----------------------------- MODULE RetryPattern -----------------------------
(***************************************************************************)
(* The retry pattern of a job function (models/queue_job_function.py), from *)
(* the dictionary that a user edits, through the JSON that keeps it, to    *)
(* the seconds by which a job is postponed (job.py).                       *)
(*                                                                         *)
(* A value of a pattern is a number, a tuple of the two ends of an interval, *)
(* or a text of digits, which the check of patterns lets pass.             *)
(***************************************************************************)
EXTENDS Integers, Sequences, FiniteSets

CONSTANTS
  Try,       \* the counts of retries, of one or two digits, that are keys of patterns
  Value,     \* the values of patterns: [kind |-> "number", of |-> n], or "tuple"
             \* and "text" with a sequence of numbers or of digits
  Asked,     \* the seconds that a RetryableJobError asks for; 0 stands for None
  Interval,  \* RETRY_INTERVAL
  MaxTries   \* bound of the model: how often a job is tried

ASSUME PatternAssumption ==
  /\ Try \subseteq 0..99
  /\ \A v \in Value : v.kind \in {"number", "tuple", "text"}
  /\ Asked \subseteq Nat
  /\ MaxTries \in Nat

VARIABLES
  pattern,   \* what a user entered and the check accepted
  column,    \* retry_pattern of the job function's row
  tries      \* retry of a job of this function

patternVars == <<pattern, column, tries>>

Number(n) == [kind |-> "number", of |-> n]

------------------------------------------------------------------------------
(* The field of the job function                                             *)

\* str and int of Python
Text(n) == IF n < 10 THEN <<n>> ELSE <<n \div 10, n % 10>>
ToInt(t) == IF Len(t) = 1 THEN t[1] ELSE 10 * t[1] + t[2]

\* What users enter.
Edited == UNION {[keys -> Value] : keys \in SUBSET Try}

\* _check_retry_pattern
Accepted(p) == \A k \in DOMAIN p : p[k].kind \in {"tuple", "characters"} => Len(p[k].of) = 2

\* In JSON keys are texts.
Stored(p) == [t \in {Text(k) : k \in DOMAIN p} |-> p[ToInt(t)]]

\* What is not a number is made a tuple: a text, one of its characters.
Converted(v) == IF v.kind = "text" THEN [kind |-> "characters", of |-> v.of] ELSE v

\* _parse_retry_pattern
Parsed(stored) ==
  [k \in {ToInt(t) : t \in DOMAIN stored} |-> Converted(stored[Text(k)])]

------------------------------------------------------------------------------
(* The seconds                                                               *)

\* Mutant of InOrder: the keys are compared as the texts they are in JSON.
InOrderOfText(keys) ==
  LET Before(k, l) ==
        \/ Text(k)[1] < Text(l)[1]
        \/ Text(k)[1] = Text(l)[1] /\ Len(Text(k)) < Len(Text(l))
        \/ Text(k)[1] = Text(l)[1] /\ Len(Text(k)) = Len(Text(l)) /\ k < l
  IN  [i \in 1..Cardinality(keys) |->
         CHOOSE k \in keys : Cardinality({l \in keys : Before(l, k)}) = i - 1]

InOrder(keys) ==
  [i \in 1..Cardinality(keys) |->
     CHOOSE k \in keys : Cardinality({l \in keys : l < k}) = i - 1]

\* The loop over the sorted items, which ends at the first that is not reached.
Looped(p, n) ==
  LET keys == InOrder(DOMAIN p)
      From[i \in 0..Len(keys)] ==
        IF i < Len(keys) /\ n >= keys[i + 1] THEN From[i + 1]
        ELSE IF i = 0 THEN Number(Interval) ELSE p[keys[i]]
  IN  From[0]

\* randint, which fails unless it gets two numbers in order: no seconds then.
Drawn(v) ==
  CASE v.kind = "number"     -> {v.of}
    [] v.kind = "tuple"      -> v.of[1]..v.of[2]
    [] v.kind = "characters" -> {}

\* _get_retry_seconds: what the exception asks for, the pattern, or the default.
\* Nobody asks for 0 seconds.
RetrySeconds(p, n, asked) ==
  IF asked # 0 THEN {asked}
  ELSE IF DOMAIN p # {} THEN Drawn(Looped(p, n))
  ELSE {Interval}

PatternInit ==
  /\ pattern = [k \in {} |-> Number(Interval)]
  /\ column = Stored(pattern)
  /\ tries = 0

\* A user enters a pattern.  The write clears the cache of job_config.
Edit(p) ==
  /\ Accepted(p)
  /\ pattern' = p
  /\ column' = Stored(p)
  /\ UNCHANGED tries

\* A user saves the text that the form shows, which is the parsed pattern.
SaveShown ==
  /\ Accepted(Parsed(column))
  /\ column' = Stored(Parsed(column))
  /\ UNCHANGED <<pattern, tries>>

\* The job is performed once more; its retries are without limit.
Perform ==
  /\ tries < MaxTries
  /\ tries' = tries + 1
  /\ UNCHANGED <<pattern, column>>

\* set_pending, when a user requeues the job.
ResetTries ==
  /\ tries # 0
  /\ tries' = 0
  /\ UNCHANGED <<pattern, column>>

PatternNext == (\E p \in Edited : Edit(p)) \/ SaveShown \/ Perform \/ ResetTries

PatternSpec == PatternInit /\ [][PatternNext]_patternVars

------------------------------------------------------------------------------
(* What the documentation promises: "from X tries, postpone to Y seconds",   *)
(* or between two numbers of seconds, and 10 minutes by default.             *)

\* Type invariant.
PatternTypeOK ==
  /\ pattern \in Edited
  /\ Accepted(pattern)
  /\ DOMAIN column = {Text(k) : k \in DOMAIN pattern}
  /\ tries \in 0..MaxTries

Promised(v) == IF v.kind = "number" THEN {v.of} ELSE v.of[1]..v.of[2]

\* Of all counts that a job has reached, the value of the greatest.
Applies(p, n) ==
  LET reached == {k \in DOMAIN p : k <= n}
  IN  IF reached = {} THEN Number(Interval)
      ELSE p[CHOOSE k \in reached : \A l \in reached : l <= k]

\* A worker that postpones its job finds the seconds that the pattern of its function
\* promises for its count of retries, though the pattern went through JSON, which
\* has no numbers as keys (queue_job_function.py:154, job.py:833).  A text, though
\* accepted, fails whenever it applies, and so does an interval that ends before it
\* begins.
PostponedAsConfigured ==
  \A asked \in Asked :
    LET v == Applies(pattern, tries)
    IN  RetrySeconds(Parsed(column), tries, asked) =
          IF asked # 0 THEN {asked} ELSE IF v.kind = "text" THEN {} ELSE Promised(v)

\* Strengthening of PostponedAsConfigured: what is read from the row is what was
\* entered, but for the texts.
ColumnInv ==
  /\ Parsed(column) = [k \in DOMAIN pattern |-> Converted(pattern[k])]
  /\ DOMAIN column = {Text(k) : k \in DOMAIN pattern}

==============================================================================
