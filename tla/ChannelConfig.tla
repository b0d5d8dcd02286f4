----------------------------- MODULE ChannelConfig -----------------------------
(***************************************************************************)
(* Where the capacities of channels come from: the option "channels" of    *)
(* the configuration file, which the accounting addon rewrites each time   *)
(* it meets a new company (a1_stock_account), the records of               *)
(* queue.job.channel, and the tree that the job runner builds from the     *)
(* option when it starts and from the channels of the jobs it is notified  *)
(* of (jobrunner/channels.py).                                             *)
(*                                                                         *)
(* The name of a channel is the sequence of its parts below the root; the  *)
(* empty sequence is the root.                                             *)
(***************************************************************************)
EXTENDS Naturals, Sequences, SequencesExt

CONSTANTS
  Company,      \* companies; a company is also the name of its channel
  Session,      \* transactions that validate accounting entries
  Part,         \* parts of the names of other channels
  Job,          \* jobs, of accounting entries or of other models
  Options,      \* what an administrator wrote in the file: sequences of entries
  JobChannels,  \* channels of other jobs
  MaxRestarts,  \* bound of the model: starts of the server
  MaxDepth,     \* bound of the model: parts of a name of a record
  MaxRecords    \* bound of the model: records that administrators create

ASSUME ConfigAssumption ==
  /\ Company \cap Part = {}
  /\ Options \subseteq Seq([name : Seq(Part), capacity : Nat])
  /\ JobChannels \subseteq Seq(Part)
  /\ MaxRestarts \in Nat /\ MaxDepth \in Nat \ {0} /\ MaxRecords \in Nat

VARIABLES
  file,      \* the entries in the file, or Truncated while it is rewritten
  channel,   \* complete names of the records of queue.job.channel
  session,   \* the sessions, with what they have read of the file
  row,       \* row[j]: the channel and the state of a job's row
  server,    \* how the server runs, and the option it read when it started
  tree,      \* the channels of the runner, by full name; none without a runner
  capacity,  \* their capacities; 0 stands for None
  at,        \* at[j]: the runner's channel of a job; NoChannel if unknown
  restarts,
  lost       \* history: companies whose entry two writers or a crash may lose

vars == <<file, channel, session, row, server, tree, capacity, at, restarts, lost>>

records == <<channel, row>>
runner  == <<server, tree, capacity, at, restarts>>

NoChannel == <<"none">>
NoRow     == [state |-> "none"]
Gone      == [state |-> "gone"]
Root      == <<>>

Entry(name, n) == [name |-> name, capacity |-> n]
Truncated == <<Entry(<<"truncated">>, 0)>>
Down       == [kind |-> "down", option |-> <<>>]
NewSession == [pc |-> "new", company |-> {}, read |-> <<>>]

------------------------------------------------------------------------------
(* queue.job.channel (models/queue_job_channel.py)                           *)

ParentName(n) == Front(n)

\* create: a name below an existing record, unique.
CreateChannel(parent, part) ==
  /\ parent \in channel /\ Len(parent) < MaxDepth
  /\ Cardinality(channel) < MaxRecords
  /\ Append(parent, part) \notin channel
  /\ channel' = channel \cup {Append(parent, part)}
  /\ UNCHANGED <<file, session, row, runner, lost>>

\* _compute_complete_name, which is recursive: the name of record m once record n
\* is called new.
CompleteName(n, new, m) ==
  IF IsPrefix(n, m) THEN new \o SubSeq(m, Len(n) + 1, Len(m)) ELSE m

\* Mutant of WriteChannel: the names of the channels below are not recomputed.
WriteChannelOnly(n, parent, part) ==
  /\ n # Root /\ part \in Part \cup {Last(n)}
  /\ ~IsPrefix(n, parent) /\ Append(parent, part) \notin channel
  /\ channel' = (channel \ {n}) \cup {Append(parent, part)}
  /\ \A m \in channel' : Len(m) <= MaxDepth
  /\ UNCHANGED <<file, session, row, runner, lost>>

\* write: the record gets another name, another parent, or both, but for the root.
\* The rows of jobs keep the old names, and so does the file.
WriteChannel(n, parent, part) ==
  /\ n # Root /\ part \in Part \cup {Last(n)}
  /\ ~IsPrefix(n, parent) /\ Append(parent, part) \notin channel
  /\ channel' = {CompleteName(n, Append(parent, part), m) : m \in channel}
  /\ \A m \in channel' : Len(m) <= MaxDepth
  /\ UNCHANGED <<file, session, row, runner, lost>>

\* unlink: not the root, nor a record with children (ondelete="restrict").
UnlinkChannel(n) ==
  /\ n \in channel \ {Root}
  /\ \A m \in channel : ~IsStrictPrefix(n, m)
  /\ channel' = channel \ {n}
  /\ UNCHANGED <<file, session, row, runner, lost>>

------------------------------------------------------------------------------
(* _validate_accounting_entries (a1_stock_account)                           *)

NameOf(c) == <<c>>
EntryOf(c) == Entry(NameOf(c), 1)

\* The records are searched by their own name, wherever they are.
Recorded(c) == \E n \in channel \ {Root} : Last(n) = c

Inserted(s) == session[s].pc \in {"created", "read", "truncated", "written"}

Step(s, pc) == session' = [session EXCEPT ![s].pc = pc]

\* The record is searched in the snapshot of the transaction.
OpenSession(s, c) ==
  /\ session[s].pc = "new"
  /\ session' = [session EXCEPT ![s] =
       [pc |-> IF Recorded(c) THEN "delay" ELSE "create",
        company |-> {c}, read |-> <<>>]]
  /\ UNCHANGED <<file, records, runner, lost>>

CompanyOf(s) == CHOOSE c \in session[s].company : TRUE

\* The record is inserted; the unique name makes it wait for a transaction that
\* has inserted the same one.
InsertChannel(s) ==
  /\ session[s].pc = "create"
  /\ NameOf(CompanyOf(s)) \notin channel
  /\ \A o \in Session \ {s} :
       ~(session[o].company = session[s].company /\ Inserted(o))
  /\ Step(s, "created")
  /\ UNCHANGED <<file, records, runner, lost>>

\* It exists by now: the request fails with a unique violation.
InsertFails(s) ==
  /\ session[s].pc = "create"
  /\ NameOf(CompanyOf(s)) \in channel
  /\ Step(s, "over")
  /\ UNCHANGED <<file, records, runner, lost>>

Rewriting(s) == session[s].pc \in {"read", "truncated"}

\* The companies that have an entry, or are getting one.
AtRisk == {c \in Company : Recorded(c)} \cup UNION {session[s].company : s \in Session}

\* update_odoo_config, first half.  A truncated file reads as one without the
\* option; what another session is about to write is not read.
ReadFile(s) ==
  /\ session[s].pc = "created"
  /\ session' = [session EXCEPT ![s].pc = "read",
                   ![s].read = IF file = Truncated THEN <<>> ELSE file]
  /\ lost' = IF file = Truncated \/ \E o \in Session \ {s} : Rewriting(o)
             THEN lost \cup AtRisk ELSE lost
  /\ UNCHANGED <<file, records, runner>>

\* open(path, 'w')
TruncateFile(s) ==
  /\ session[s].pc = "read"
  /\ file' = Truncated
  /\ Step(s, "truncated")
  /\ UNCHANGED <<records, runner, lost>>

\* Mutant of NewOption: the value replaces the existing one.
NewOptionOnly(read, c) == <<EntryOf(c)>>

NewOption(read, c) ==
  IF Contains(read, EntryOf(c)) THEN read ELSE Append(read, EntryOf(c))

WriteFile(s) ==
  /\ session[s].pc = "truncated"
  /\ file' = NewOption(session[s].read, CompanyOf(s))
  /\ session' = [session EXCEPT ![s].pc = "written", ![s].read = <<>>]
  /\ UNCHANGED <<records, runner, lost>>

\* with_delay(channel = name), and the commit: record and job appear together.
CommitSession(s, j) ==
  /\ session[s].pc \in {"delay", "written"} /\ row[j] = NoRow
  /\ channel' = channel \cup (IF session[s].pc = "written" THEN {NameOf(CompanyOf(s))} ELSE {})
  /\ row' = [row EXCEPT ![j] = [state |-> "pending", name |-> NameOf(CompanyOf(s)),
                                rooted |-> FALSE]]
  /\ Step(s, "over")
  /\ UNCHANGED <<file, runner, lost>>

\* Any error, or the death of the process, rolls the transaction back; the file
\* stays as it is, truncated perhaps.
RollBack(s) ==
  /\ session[s].pc \in {"delay", "create", "created", "read", "truncated", "written"}
  /\ session' = [session EXCEPT ![s].pc = "over", ![s].read = <<>>]
  /\ lost' = IF session[s].pc = "truncated" THEN lost \cup AtRisk ELSE lost
  /\ UNCHANGED <<file, records, runner>>

HasRow(j) == row[j].state \in {"pending", "ended"}

------------------------------------------------------------------------------
(* The other jobs                                                            *)

\* The channels that job_config has in its cache: the root for a method without a
\* job function, or the complete name of a record, which stays there when the
\* record is renamed.  A call of with_delay may name any channel.
JobConfigChannels == JobChannels \cup {Root}

\* The row of another job is created, with its channel.
DelayOther(j, n) ==
  /\ row[j] = NoRow
  /\ row' = [row EXCEPT ![j] = [state |-> "pending", name |-> n, rooted |-> TRUE]]
  /\ UNCHANGED <<file, channel, session, runner, lost>>

\* A worker runs it, or a user cancels it.
EndJob(j) ==
  /\ row[j].state = "pending"
  /\ row' = [row EXCEPT ![j].state = "ended"]
  /\ UNCHANGED <<file, channel, session, runner, lost>>

\* autovacuum looks for the complete names of the records in the rows.
Autovacuum(j) ==
  /\ row[j].state = "ended" /\ row[j].rooted /\ row[j].name \in channel
  /\ row' = [row EXCEPT ![j] = Gone]
  /\ UNCHANGED <<file, channel, session, runner, lost>>

------------------------------------------------------------------------------
(* The tree of the runner (jobrunner/channels.py)                            *)

\* Names of the channels from below p to p followed by n.
Below(p, n) == {p \o SubSeq(n, 1, i) : i \in 1..Len(n)}

\* Channel.configure, as often as there are entries for the channel: the last one
\* stays.
ConfiguredBy(entries, n) ==
  LET ofChannel == {i \in DOMAIN entries : entries[i].name = n}
  IN  entries[CHOOSE i \in ofChannel : \A k \in ofChannel : k <= i].capacity

\* Channel.__init__: no limit, but for the root channel.
Unconfigured(n) == IF n = Root THEN 1 ELSE 0

\* simple_configure, one entry after the other; "root:1" without the option.
\* get_channel_by_name with autocreate creates missing parents as well.
Configured(option) ==
  LET entries == IF option = <<>> THEN <<Entry(Root, 1)>> ELSE option
      names == {Root} \cup UNION {Below(Root, entries[i].name) : i \in DOMAIN entries}
      Has(n) == \E i \in DOMAIN entries : entries[i].name = n
  IN  [n \in names |-> IF Has(n) THEN ConfiguredBy(entries, n) ELSE Unconfigured(n)]

\* With parent_fallback: the nearest parent of n among the channels of t.
Fallback(t, n) ==
  LET above == {p \in t : IsStrictPrefix(p, n)}
  IN  CHOOSE p \in above : \A q \in above : Len(q) <= Len(p)

\* Mutants: the last part of the name alone is created; nothing is registered;
\* the channel is registered under the name that was asked for.
ResolveLastPart(t, n) == IF n \in t THEN n ELSE <<n[Len(n)]>>

GrownNot(t, n) == t

GrownAsAsked(t, n) == t \cup (IF n \in t THEN {} ELSE {n} \cup Below(Fallback(t, n), n))

\* Where a job of channel n goes; all the parts of n are then looked up below
\* the fallback, and created.
Resolve(t, n) == IF n \in t THEN n ELSE Fallback(t, n) \o n

Grown(t, n) == t \cup (IF n \in t THEN {} ELSE Below(Fallback(t, n), n))

\* notify, for the row of a job.
Notify(j) ==
  LET n == row[j].name IN
  /\ tree # {} /\ HasRow(j)
  /\ tree' = Grown(tree, n)
  /\ capacity' = [m \in tree' |-> IF m \in tree THEN capacity[m] ELSE 0]
  /\ at' = [at EXCEPT ![j] = IF row[j].state = "ended" THEN NoChannel ELSE Resolve(tree, n)]
  /\ UNCHANGED <<file, records, session, server, restarts, lost>>

NotifyGone(j) ==
  /\ row[j] = Gone /\ at[j] # NoChannel
  /\ at' = [at EXCEPT ![j] = NoChannel]
  /\ UNCHANGED <<file, records, session, server, tree, capacity, restarts, lost>>

------------------------------------------------------------------------------
(* The server and its runner (jobrunner/__init__.py)                         *)

\* A new QueueJobRunner is configured from the option, as the server read it; the
\* jobs follow.
NewRunner(option) ==
  /\ capacity' = Configured(option)
  /\ tree' = DOMAIN capacity'
  /\ at' = [j \in Job |-> NoChannel]

NoRunner ==
  /\ tree' = {} /\ capacity' = [n \in {} |-> 0]
  /\ at' = [j \in Job |-> NoChannel]

\* _is_runner_enabled: the option does not begin with root:0.
Enabled(option) == option # <<>> => option[1] # Entry(Root, 0)

\* The file is read once; each kind of server starts its runner in its own way.
StartServer(kind) ==
  /\ server = Down /\ restarts < MaxRestarts
  /\ server' = [kind |-> kind, option |-> IF file = Truncated THEN <<>> ELSE file]
  /\ restarts' = restarts + 1
  /\ UNCHANGED <<file, records, session, lost>>

\* _start_runner_thread, once the server has started.
StartThread ==
  /\ StartServer("threaded")
  /\ IF Enabled(server'.option) THEN NewRunner(server'.option) ELSE NoRunner

\* prefork__init__: no runner yet.
StartPrefork == StartServer("prefork") /\ NoRunner

\* prefork_process_spawn, at each turn of the main loop of the server.
SpawnRunner ==
  /\ server.kind = "prefork" /\ tree = {}
  /\ Enabled(server.option) /\ NewRunner(server.option)
  /\ UNCHANGED <<file, records, session, server, restarts, lost>>

\* WorkerJobRunner: stopped at its limit of CPU time, it goes on with a new runner.
RecoverRunner ==
  /\ server.kind = "prefork" /\ tree # {} /\ NewRunner(server.option)
  /\ UNCHANGED <<file, records, session, server, restarts, lost>>

\* prefork_worker_pop: the process of the runner ended.
PopRunner ==
  /\ server.kind = "prefork" /\ tree # {} /\ NoRunner
  /\ UNCHANGED <<file, records, session, server, restarts, lost>>

\* threaded_stop, and the end of a prefork server.
StopServer ==
  /\ server # Down /\ server' = Down /\ NoRunner
  /\ UNCHANGED <<file, records, session, restarts, lost>>

------------------------------------------------------------------------------

Init ==
  /\ file \in Options
  /\ channel = {Root}
  /\ session = [s \in Session |-> NewSession]
  /\ row = [j \in Job |-> NoRow]
  /\ server = Down /\ tree = {} /\ capacity = [n \in {} |-> 0]
  /\ at = [j \in Job |-> NoChannel]
  /\ restarts = 0
  /\ lost = {}

RecordStep ==
  \E n \in channel :
    \/ \E part \in Part : CreateChannel(n, part)
    \/ \E parent \in channel, part \in Part \cup Company : WriteChannel(n, parent, part)
    \/ UnlinkChannel(n)

SessionStep(s) ==
  \/ \E c \in Company : OpenSession(s, c)
  \/ InsertChannel(s) \/ InsertFails(s) \/ ReadFile(s) \/ TruncateFile(s) \/ WriteFile(s)
  \/ RollBack(s)
  \/ \E j \in Job : CommitSession(s, j)

JobStep(j) ==
  \/ \E n \in JobConfigChannels : DelayOther(j, n)
  \/ EndJob(j) \/ Autovacuum(j) \/ Notify(j) \/ NotifyGone(j)

ServerStep ==
  StartThread \/ StartPrefork \/ SpawnRunner \/ RecoverRunner \/ PopRunner \/ StopServer

Next ==
  \/ RecordStep
  \/ \E s \in Session : SessionStep(s)
  \/ \E j \in Job : JobStep(j)
  \/ ServerStep

Spec == Init /\ [][Next]_vars

------------------------------------------------------------------------------
(* Properties                                                                *)

Names   == Seq(Part \cup Company)
Entries == Seq([name : Names, capacity : Nat])
Rows    == [state : {"pending", "ended"}, name : Names, rooted : BOOLEAN]

TypeOK ==
  /\ file = Truncated \/ file \in Entries
  /\ \A n \in channel : n \in Names /\ Len(n) <= MaxDepth
  /\ session \in [Session ->
       [pc : {"new", "delay", "create", "created", "read", "truncated", "written",
              "over"},
        company : SUBSET Company, read : Entries]]
  /\ row \in [Job -> {NoRow, Gone} \cup Rows]
  /\ server \in [kind : {"down", "prefork", "threaded"}, option : Entries]
  /\ \A n \in tree : n \in Names
  /\ capacity \in [tree -> Nat]
  /\ at \in [Job -> tree \cup {NoChannel}]
  /\ restarts \in 0..MaxRestarts
  /\ lost \subseteq Company

\* The records are a tree: whatever is renamed, moved or removed, a complete name never
\* outlives the record above it.
RecordsAreATree == \A n \in channel : n = Root \/ ParentName(n) \in channel

\* The entry that limits the accounting jobs of a company to one at a time is
\* in the file once the company's record is committed, unless two sessions were
\* rewriting the file at once or one stopped in the middle; nothing writes it
\* again then.
EntriesAreKept ==
  file # Truncated =>
    \A c \in Company : Recorded(c) => c \in lost \/ Contains(file, EntryOf(c))

\* A channel whose name has its first part again further down.
Homonym(n) == \E i \in 2..Len(n) : n[i] = n[1]

\* "Look for first direct parent w/ config" (channels.py:987): the configured
\* channels that limit a job are those that its name is below, as long as no
\* configured name repeats its first part.
Limits(j) == {n \in tree : capacity[n] # 0 /\ IsPrefix(n, at[j])}
Named(j)  == {n \in tree : capacity[n] # 0 /\ IsPrefix(n, row[j].name)}

OwnChannelsLimit ==
  (\A n \in tree : capacity[n] # 0 => ~Homonym(n)) =>
    \A j \in Job : at[j] # NoChannel /\ HasRow(j) => Limits(j) = Named(j)

\* Jobs of one channel never get to be in two channels of the runner, as long as
\* the name does not repeat its first part.
SameChannel ==
  \A i, j \in Job :
    /\ at[i] # NoChannel /\ at[j] # NoChannel
    /\ HasRow(i) /\ HasRow(j)
    /\ row[i].name = row[j].name /\ ~Homonym(row[i].name)
    => at[i] = at[j]

------------------------------------------------------------------------------
(* Inductive strengthenings, for the proofs of module ChannelConfigProofs     *)

\* RecordsAreATree: the root is a record from the start (data/queue_data.xml).
RecordsInv == RecordsAreATree /\ Root \in channel

OneCompany ==
  \A s \in Session : session[s].pc # "new" =>
    \E c \in Company : session[s].company = {c}

\* EntriesAreKept: the same of every option that a session is about to write, and
\* of the companies whose record is about to be committed.
Entitled(c) ==
  \/ Recorded(c)
  \/ \E s \in Session : session[s].pc = "written" /\ c \in session[s].company

HasEntries(option) ==
  \A c \in Company : Entitled(c) => c \in lost \/ Contains(option, EntryOf(c))

EntriesInv ==
  /\ file # Truncated => HasEntries(file)
  /\ \A s \in Session : Rewriting(s) => HasEntries(session[s].read)
  /\ \A s, o \in Session :
       s # o /\ Rewriting(s) /\ Rewriting(o) => session[s].company \subseteq lost

\* The channels of the runner are a tree, and it knows jobs that have a row.
TreeInv ==
  /\ \A n \in tree : \A i \in 0..Len(n) : SubSeq(n, 1, i) \in tree
  /\ \A j \in Job : at[j] # NoChannel => row[j] # NoRow

\* SameChannel: the channel of a job is the one that its name would get now.
ResolvedInv ==
  \A j \in Job :
    at[j] # NoChannel /\ HasRow(j) /\ ~Homonym(row[j].name) => at[j] = Resolve(tree, row[j].name)

\* OwnChannelsLimit: what precedes the name of a job's channel is the part of it
\* that covers every configured channel above.
Covered(n, i) == \A m \in tree : capacity[m] # 0 /\ IsPrefix(m, n) => Len(m) <= i

LimitsInv ==
  \A j \in Job : at[j] # NoChannel /\ HasRow(j) =>
    \E i \in 0..Len(row[j].name) :
      /\ at[j] = SubSeq(row[j].name, 1, i) \o row[j].name
      /\ i = 0 \/ Covered(row[j].name, i)

==============================================================================
