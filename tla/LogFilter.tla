------------------------------ MODULE LogFilter ------------------------------
(***************************************************************************)
(* The log filter of src/filter/core_filter.go: includes, FilterLogs,      *)
(* bloomFilter and Find.  A filter is a sequence of addresses and a        *)
(* sequence of topic lists (the Hash{} wildcard matching any topic); a log *)
(* is an address and a sequence of topics.  A block's bloom filter is the  *)
(* set of addresses and topics BloomLookup answers yes for: here exactly   *)
(* those of its logs, since a false positive only costs time.              *)
(*                                                                         *)
(* Wanted(f, l) is the filter as its comments and field names describe it: *)
(* the log's address is one of the filter's addresses (when it has any),   *)
(* and each topic position is matched by one of the position's topics.     *)
(***************************************************************************)
EXTENDS Integers, Sequences, SequencesExt

CONSTANTS
    Addresses,    \* the addresses of filters and logs
    Topics,       \* the topic hashes of logs
    Wild,         \* common.Hash{}, the wildcard topic of a filter
    MaxAddrs,     \* bound: addresses in a filter
    MaxPositions, \* bound: topic positions in a filter
    MaxChoices,   \* bound: topics at one filter position
    MaxLogs,      \* bound: logs given to FilterLogs, and logs in a block
    MaxLogTopics, \* bound: topics of one log
    Earliest,     \* SetEarliestBlock (-1: the current block)
    Latest,       \* SetLatestBlock (-1: the current block)
    FindMax,      \* SetMax
    FindSkip      \* SetSkip

ASSUME /\ Wild \notin Topics
       /\ {MaxAddrs, MaxPositions, MaxChoices, MaxLogs, MaxLogTopics, FindMax, FindSkip} \subseteq Nat
       /\ {Earliest, Latest} \subseteq Int

Log == [address : Addresses, topics : Seq(Topics)]

\* includes(addresses, a): the loop returns false at the first address that
\* differs from a.
includes(addresses, a) == \A k \in 1..Len(addresses) : addresses[k] = a

\* Mutant of Passes: "continue" in place of "continue Logs" after a
\* position without a match, so the topics never reject a log.
PassesNoTopicCheck(address, topics, l) ==
    /\ ~(Len(address) > 0 /\ ~includes(address, l.address))
    /\ ~(Len(topics) > Len(l.topics))

\* The conditions of FilterLogs' loop body for one log: the address check,
\* "len(self.topics) > len(log.Topics)", and the per-position match.
Passes(address, topics, l) ==
    /\ ~(Len(address) > 0 /\ ~includes(address, l.address))
    /\ ~(Len(topics) > Len(l.topics))
    /\ \A i \in 1..Len(topics) :
          \E k \in 1..Len(topics[i]) : topics[i][k] = Wild \/ l.topics[i] = topics[i][k]

\* FilterLogs(logs): the logs that pass, in order.
FilterLogs(address, topics, logs) == SelectSeq(logs, LAMBDA l : Passes(address, topics, l))

\* types.BloomLookup(block.Bloom(), x) for a bloom holding the items in bloom.
BloomLookup(bloom, x) == x \in bloom

\* Mutant of bloomFilter: every filter address must be in the bloom.
bloomFilterAll(address, topics, bloom) ==
    /\ \A k \in 1..Len(address) : BloomLookup(bloom, address[k])
    /\ \A i \in 1..Len(topics) :
          \E k \in 1..Len(topics[i]) : topics[i][k] = Wild \/ BloomLookup(bloom, topics[i][k])

\* bloomFilter(block): some filter address is in the bloom, and every topic
\* position has a wildcard or a topic in the bloom.
bloomFilter(address, topics, bloom) ==
    /\ Len(address) > 0 => \E k \in 1..Len(address) : BloomLookup(bloom, address[k])
    /\ \A i \in 1..Len(topics) :
          \E k \in 1..Len(topics[i]) : topics[i][k] = Wild \/ BloomLookup(bloom, topics[i][k])

\* The bloom of a block with the given logs.
BloomOf(logs) == {logs[k].address : k \in 1..Len(logs)}
                    \cup UNION {Range(logs[k].topics) : k \in 1..Len(logs)}

-----------------------------------------------------------------------------
(* Find, over a canonical chain whose blocks are their heights 0..head;    *)
(* blockLogs[n] are the logs of block n.                                    *)

\* The walk from the latest block back through GetBlock(ParentHash); the
\* switch breaks at height 0, at the earliest height or when max logs are
\* collected, and "if self.bloomFilter(block) { break }" ends the loop.
RECURSIVE FindLoop(_, _, _, _, _, _)
FindLoop(address, topics, blockLogs, n, earliestNo, logs) ==
    IF n < 0 \/ n = 0 \/ n = earliestNo \/ FindMax <= Len(logs) THEN logs
    ELSE IF bloomFilter(address, topics, BloomOf(blockLogs[n])) THEN logs
    ELSE FindLoop(address, topics, blockLogs, n - 1, earliestNo, logs)

\* Find(): the earliest and latest heights (-1: the head), the walk from
\* GetBlockByNumber(latest) (nil above the head), and logs[skip:].
Find(address, topics, blockLogs, head) ==
    LET earliestNo == IF Earliest = -1 THEN head ELSE Earliest
        latestNo   == IF Latest = -1 THEN head ELSE Latest
        logs       == IF latestNo > head THEN <<>>
                      ELSE FindLoop(address, topics, blockLogs, latestNo, earliestNo, <<>>)
        skip       == IF Len(logs) < FindSkip THEN Len(logs) ELSE FindSkip
    IN  SubSeq(logs, skip + 1, Len(logs))

-----------------------------------------------------------------------------
(* References *)

Wanted(address, topics, l) ==
    /\ Len(address) > 0 => l.address \in Range(address)
    /\ Len(topics) <= Len(l.topics)
    /\ \A i \in 1..Len(topics) : Wild \in Range(topics[i]) \/ l.topics[i] \in Range(topics[i])

WantedLogs(address, topics, logs) == SelectSeq(logs, LAMBDA l : Wanted(address, topics, l))

\* What Find is for: the wanted logs of the blocks from the latest height
\* down to (not including) the earliest, newest block first, skip dropped.
FindRef(address, topics, blockLogs, head) ==
    LET earliestNo == IF Earliest = -1 THEN head ELSE Earliest
        latestNo   == IF Latest = -1 THEN head ELSE Latest
        heights    == [k \in 1..(latestNo - earliestNo) |-> latestNo + 1 - k]
        all        == FlattenSeq([k \in 1..Len(heights) |->
                                    WantedLogs(address, topics, blockLogs[heights[k]])])
        skip       == IF Len(all) < FindSkip THEN Len(all) ELSE FindSkip
    IN  SubSeq(all, skip + 1, Len(all))

-----------------------------------------------------------------------------
(* The inputs: a filter (address, topics) and the logs of the head block,  *)
(* block 1 above an empty genesis block, built one element at a time.      *)

VARIABLES address, topics, logs

vars == <<address, topics, logs>>

Chain == [n \in 0..1 |-> IF n = 1 THEN logs ELSE <<>>]

Init == address = <<>> /\ topics = <<>> /\ logs = <<>>

\* SetAddress: one more address.
AddAddress(a) ==
    /\ Len(address) < MaxAddrs
    /\ address' = Append(address, a)
    /\ UNCHANGED <<topics, logs>>

\* SetTopics: one more topic position, or one more topic at the last one.
AddPosition ==
    /\ Len(topics) < MaxPositions
    /\ topics' = Append(topics, <<>>)
    /\ UNCHANGED <<address, logs>>

AddChoice(t) ==
    /\ Len(topics) > 0 /\ Len(topics[Len(topics)]) < MaxChoices
    /\ topics' = [topics EXCEPT ![Len(topics)] = Append(@, t)]
    /\ UNCHANGED <<address, logs>>

\* One more log, or one more topic of the last log.
AddLog(a) ==
    /\ Len(logs) < MaxLogs
    /\ logs' = Append(logs, [address |-> a, topics |-> <<>>])
    /\ UNCHANGED <<address, topics>>

AddLogTopic(t) ==
    /\ Len(logs) > 0 /\ Len(logs[Len(logs)].topics) < MaxLogTopics
    /\ logs' = [logs EXCEPT ![Len(logs)].topics = Append(@, t)]
    /\ UNCHANGED <<address, topics>>

Next ==
    \/ \E a \in Addresses : AddAddress(a) \/ AddLog(a)
    \/ AddPosition
    \/ \E t \in Topics \cup {Wild} : AddChoice(t)
    \/ \E t \in Topics : AddLogTopic(t)

Spec == Init /\ [][Next]_vars

-----------------------------------------------------------------------------
(* Properties *)

\* FilterLogs, which FilterManager runs on every state.Logs event, never
\* hands a log the filter does not ask for to the LogsCallback.
FilterLogsSound ==
    LET out == FilterLogs(address, topics, logs)
    IN  \A k \in 1..Len(out) : Wanted(address, topics, out[k])

\* FilterLogs keeps every log the filter asks for: a log whose address is
\* one of the filter's addresses and whose topics match is delivered.
FilterLogsComplete == FilterLogs(address, topics, logs) = WantedLogs(address, topics, logs)

\* bloomFilter never rules out a block holding a log the filter asks for.
BloomNoFalseNegative ==
    Len(WantedLogs(address, topics, logs)) > 0 => bloomFilter(address, topics, BloomOf(logs))

\* Find ("Run filters logs with the current parameters set") returns the
\* wanted logs of the blocks it is asked about.
FindReturnsWanted == Find(address, topics, Chain, 1) = FindRef(address, topics, Chain, 1)
=============================================================================
