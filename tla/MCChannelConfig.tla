---------------------------- MODULE MCChannelConfig ----------------------------
(* Instances of ChannelConfig for TLC: the options an administrator wrote   *)
(* and the channels of other jobs.                                           *)
EXTENDS ChannelConfig, TLC

CONSTANTS a, b

Opt(name, n) == [name |-> name, capacity |-> n]

\* root:0 or root:2,a:2,b:1; a server without the option is one that started while
\* the file was truncated.
SomeOptions == {<<Opt(<<>>, 0)>>, <<Opt(<<>>, 2), Opt(<<a>>, 2), Opt(<<b>>, 1)>>}

\* Below b, the part a is not the channel a of the option.
SomeChannels == {<<b, a>>}

ConfigSymmetry == Permutations(Session) \cup Permutations(Job) \cup Permutations(Company)

==============================================================================
