-------------------------------- MODULE Replay --------------------------------
(***************************************************************************)
(* Reading the raw log back (market_data/replay.py).  The segments of a    *)
(* stream are chained in the order of their first events, and the streams  *)
(* are merged by a heap that must meet every ingest sequence once, without *)
(* a gap.  An event is its ingest sequence; sequences begin at 1.  What is *)
(* called a stream here is one directory, a stream within an hour.         *)
(*                                                                         *)
(* The iterators raise in the middle: what they have yielded before counts.*)
(***************************************************************************)
EXTENDS Naturals, SequencesExt

\* The segment that is next: the one with the oldest first event.  Of two that
\* begin with the same one, the second is refused, whichever it is.
Earliest(segments) ==
    CHOOSE a \in segments : \A b \in segments : a.events[1] <= b.events[1]

\* One segment more of a chain: no event may be older than the last one of the
\* segment before.
Linked(chain) ==
    LET next == Earliest(chain.rest)
        segment == next.events
        overlap == {i \in DOMAIN segment : segment[i] <= chain.last}
    IN
    IF chain.refused \/ chain.rest = {} THEN chain
    ELSE IF overlap = {}
      THEN [events |-> chain.events \o segment, last |-> Last(segment), refused |-> FALSE,
            rest |-> chain.rest \ {next}]
      ELSE [chain EXCEPT !.events = @ \o SubSeq(segment, 1, Min(overlap) - 1), !.refused = TRUE]

\* The chain of a stream, after each segment
Chaining(segments) ==
    LET chain[n \in 0..Cardinality(segments)] ==
          IF n = 0 THEN [events |-> <<>>, last |-> 0, refused |-> FALSE, rest |-> segments]
          ELSE Linked(chain[n - 1])
    IN chain

\* RawStreamChain: the segments, records with their events, one after the other
Chained(segments) == Chaining(segments)[Cardinality(segments)]

\* Mutant of Least: the first chain that has an event.
LeastIndex(heads, head) == Min(heads)

\* The top of the heap: the smallest event, of the first chain that has it
Least(heads, head) ==
    CHOOSE i \in heads : \A j \in heads : head[i] < head[j] \/ (head[i] = head[j] /\ i <= j)

\* One round of merge_raw_streams().
Popped(chains, merge) ==
    LET heads == {i \in DOMAIN chains : merge.at[i] <= Len(chains[i].events)}
        head == [i \in heads |-> chains[i].events[merge.at[i]]]
        top == Least(heads, head)
        taken == merge.at[top]
    IN
    IF merge.refused \/ heads = {} THEN merge
    ELSE IF merge.expected \notin {0, head[top]} THEN [merge EXCEPT !.refused = TRUE]
    ELSE [at |-> [merge.at EXCEPT ![top] = taken + 1],
          expected |-> head[top] + 1,
          events |-> Append(merge.events, head[top]),
          refused |-> taken = Len(chains[top].events) /\ chains[top].refused]

\* The places of all events
Places(chains) == UNION {{i} \X DOMAIN chains[i].events : i \in DOMAIN chains}

\* merge_raw_streams(), after each round
Merging(chains) ==
    LET merge[r \in 0..Cardinality(Places(chains))] ==
          IF r = 0 THEN [at |-> [i \in DOMAIN chains |-> 1], expected |-> 0, events |-> <<>>,
                         refused |-> FALSE]
          ELSE Popped(chains, merge[r - 1])
    IN merge

Merged(chains) == Merging(chains)[Cardinality(Places(chains))]

\* read_raw_events(): the segments of each stream.
ReadRawEvents(streams) ==
    LET names == SetToSeq({st \in DOMAIN streams : streams[st] # {}}) IN
    Merged([i \in DOMAIN names |-> Chained(streams[names[i]])])

=============================================================================
