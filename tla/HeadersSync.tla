---------------------------- MODULE HeadersSync -----------------------------
(***************************************************************************)
(* The two-pass download of a headers chain (headerssync.cpp) with one     *)
(* peer, driven as in net_processing.cpp.  In PRESYNC the node adds up the *)
(* work and keeps one salted bit per Period headers; in REDOWNLOAD the     *)
(* peer serves the chain again, and headers are released to the block      *)
(* index once enough of them have been checked against the bits.           *)
(*                                                                         *)
(* A header is [time, bits]; its hash is the chain up to it, a sequence of *)
(* such records, so that a hash determines its height and its ancestors:   *)
(* m_last_header_received and m_current_height are last, and the last hash *)
(* and height of the redownload buffer are lastHash.  The chain starts at  *)
(* the genesis block, <<>>.  The peer answers every request from the chain *)
(* it has then: it mines, and it may reorganise; a chain it serves may     *)
(* have wrong bits.                                                        *)
(***************************************************************************)
EXTENDS Asert, Sequences

CONSTANTS
  Period,             \* commitment_period
  BufferSize,         \* redownload_buffer_size
  MaxResults,         \* max_headers_result
  MinWork,            \* m_minimum_required_work
  BlocksPerSecond,    \* 6: what the median-time rule allows
  MaxSeconds,         \* max_seconds_since_start
  SaltedBit(_),       \* m_hasher(hash) & 1
  MaxHeight, Steps, WrongBits, MaxReorgs   \* bounds: the peer's chains

VARIABLES
  peer, reorgs,    \* the chain of the peer, and how often it was reorganised
  state,           \* m_download_state
  offset,          \* m_commit_offset
  last, work,      \* m_last_header_received, m_current_chain_work
  commitments,     \* m_header_commitments
  buffer,          \* m_redownloaded_headers
  firstPrev, lastHash, redownloadWork,
  all,             \* m_process_all_remaining_headers
  released,        \* what ProcessNextHeaders has returned, headers with their previous hash
  seen, got,       \* the chains of the two passes
  complete         \* the sync ended with all headers released

node == <<state, offset, last, work, commitments, buffer, firstPrev, lastHash, redownloadWork, all,
          released, seen, got, complete>>
vars == <<peer, reorgs, node>>

\* The time of a block, the genesis block included
TimeOf(hash) == IF hash = <<>> THEN 0 ELSE hash[Len(hash)].time

\* The difficulty rule, tabulated for the heights and times of the bounded chains
Times == 0 .. MaxHeight * Max(Steps)
NextBits == [height \in 0 .. MaxHeight |-> [time \in Times |-> GetNextWorkRequired(height, time)]]
AllBits == (UNION {Range(NextBits[height]) : height \in 0 .. MaxHeight}) \cup WrongBits
Proofs == [bits \in AllBits |-> GetBitsProof(bits)]

Required(prev) == NextBits[Len(prev)][TimeOf(prev)]

\* The sum of the first n numbers of a sequence
SumUpTo(numbers, n) ==
  LET sum[i \in 0 .. Len(numbers)] == IF i = 0 THEN 0 ELSE sum[i - 1] + numbers[i]
  IN sum[n]

\* The work of the first n headers
WorkUpTo(hash, n) == SumUpTo([i \in 1 .. Len(hash) |-> Proofs[hash[i].bits]], n)
ChainWork(hash) == WorkUpTo(hash, Len(hash))

ASSUME HeadersSyncAssumption ==
  /\ Period \in Nat \ {0} /\ BufferSize \in Nat \ {0} /\ MaxResults \in Nat \ {0}
  /\ BlocksPerSecond \in Nat /\ MaxSeconds \in Nat /\ MinWork \in Nat /\ MaxHeight \in Nat
  /\ Steps \subseteq Nat /\ \E most \in Steps : \A step \in Steps : step <= most
  /\ \A bits \in AllBits : Proofs[bits] \in Nat
  /\ SetCompact(AnchorBits) * 2 * One < 2 ^ Width

MaxCommitments == (BlocksPerSecond * MaxSeconds) \div Period

\* The state that Finalize leaves
Cleared ==
  /\ state' = "FINAL" /\ all' = FALSE
  /\ last' = <<>> /\ commitments' = <<>> /\ buffer' = <<>> /\ firstPrev' = <<>> /\ lastHash' = <<>>

Init ==
  /\ peer = <<>> /\ reorgs = 0
  /\ state = "PRESYNC" /\ offset \in 0 .. Period - 1
  /\ last = <<>> /\ work = 0 /\ commitments = <<>>
  /\ buffer = <<>> /\ firstPrev = <<>> /\ lastHash = <<>> /\ redownloadWork = 0 /\ all = FALSE
  /\ released = <<>> /\ seen = <<>> /\ got = <<>> /\ complete = FALSE

-----------------------------------------------------------------------------
(* The peer *)

PeerMines ==
  /\ Len(peer) < MaxHeight
  /\ \E step \in Steps, bits \in {Required(peer)} \cup WrongBits :
       peer' = Append(peer, [time |-> TimeOf(peer) + step, bits |-> bits])
  /\ UNCHANGED <<reorgs, node>>

PeerReorgs ==
  /\ reorgs < MaxReorgs
  /\ \E n \in 0 .. Len(peer) - 1 : peer' = SubSeq(peer, 1, n)
  /\ reorgs' = reorgs + 1
  /\ UNCHANGED node

\* The first hash of NextHeadersRequestLocator; the others lead to the start of the chain.
Locator == IF state = "PRESYNC" THEN last ELSE lastHash

\* Where the peer goes on, and what it sends
From ==
  IF Len(Locator) <= Len(peer) /\ Locator = SubSeq(peer, 1, Len(Locator)) THEN Locator ELSE <<>>
Batch == SubSeq(peer, Len(From) + 1, Min({Len(From) + MaxResults, Len(peer)}))
Full == Len(Batch) = MaxResults

-----------------------------------------------------------------------------
(* PRESYNC *)

\* A header for which a commitment is kept: (h % commitment_period) == m_commit_offset
Committed(hash) == Len(hash) % Period = offset

\* Mutant: the check comes before the push.
TooManyBefore(bits) == Len(bits) > MaxCommitments + 1

TooMany(bits) == Len(bits) > MaxCommitments

\* The headers of a batch that follows from, up to the i-th
Hash(from, batch, i) == from \o SubSeq(batch, 1, i)

\* m_header_commitments after the headers of a batch
Added(batch) ==
  LET bits[i \in 0 .. Len(batch)] ==
        IF i = 0 THEN commitments
        ELSE IF Committed(Hash(last, batch, i)) THEN Append(bits[i - 1], SaltedBit(Hash(last, batch, i)))
        ELSE bits[i - 1]
  IN bits[Len(batch)]

\* ValidateAndStoreHeadersCommitments with ValidateAndProcessSingleHeader, and the switch to
\* REDOWNLOAD at the required work.  A header that fails ends the sync.
Presync(batch, full) ==
  LET sum == work + ChainWork(batch)
      ok == /\ From = last
            /\ \A i \in 1 .. Len(batch) : batch[i].bits = Required(Hash(last, batch, i - 1))
            /\ ~TooMany(Added(batch))
      enough == sum >= MinWork
  IN /\ IF ~ok \/ ~(full \/ enough) THEN Cleared
        ELSE /\ last' = last \o batch /\ commitments' = Added(batch)
             /\ state' = IF enough THEN "REDOWNLOAD" ELSE "PRESYNC"
             /\ buffer' = <<>> /\ firstPrev' = <<>> /\ lastHash' = <<>> /\ UNCHANGED all
     /\ work' = IF ok THEN sum ELSE work
     /\ seen' = IF ok THEN last \o batch ELSE seen
     /\ redownloadWork' = 0
     /\ UNCHANGED <<released, got, complete>>

-----------------------------------------------------------------------------
(* REDOWNLOAD *)

\* previous_time, for a header that arrives when buffered is in the buffer
PreviousTime(buffered) == IF buffered # <<>> THEN buffered[Len(buffered)].time ELSE 0

\* Mutant: commitments are checked to the end.
AlwaysDue(everything, hash) == Committed(hash)

\* A commitment is checked, unless the second pass has reached the required work.
Due(everything, hash) == ~everything /\ Committed(hash)

\* Mutant: one header too many leaves the buffer.
PopOneMore(size, everything) ==
  IF everything THEN size ELSE IF size >= BufferSize THEN size - BufferSize + 1 ELSE 0

\* How many headers PopHeadersReadyForAcceptance takes from the buffer
Popped(size, everything) ==
  IF everything THEN size ELSE IF size > BufferSize THEN size - BufferSize ELSE 0

\* Mutant: the previous hash is not moved on inside the loop.
FullHeadersOnePrev(prev, headers) ==
  [i \in 1 .. Len(headers) |-> [prev |-> prev, header |-> headers[i]]]

\* Headers with the previous hashes that GetFullHeader fills in
FullHeaders(prev, headers) ==
  [i \in 1 .. Len(headers) |-> [prev |-> Hash(prev, headers, i - 1), header |-> headers[i]]]

\* m_process_all_remaining_headers at the i-th header of a batch
Everything(batch, i) == all \/ redownloadWork + WorkUpTo(batch, i) >= MinWork

\* The i-th header of a batch has its commitment checked.
IsDue(batch, i) == Due(Everything(batch, i), Hash(lastHash, batch, i))

\* How many commitments the first n headers of a batch take from the queue
Taken(batch, n) == SumUpTo([i \in 1 .. Len(batch) |-> IF IsDue(batch, i) THEN 1 ELSE 0], n)

\* ValidateAndStoreRedownloadedHeader accepts the headers of the batch.
Accepted(batch) ==
  /\ From = lastHash
  /\ \A i \in 1 .. Len(batch) :
       /\ batch[i].bits = NextBits[Len(lastHash) + i - 1][PreviousTime(Hash(buffer, batch, i - 1))]
       /\ IsDue(batch, i) => /\ Taken(batch, i) <= Len(commitments)
                             /\ commitments[Taken(batch, i)] = SaltedBit(Hash(lastHash, batch, i))

\* ValidateAndStoreRedownloadedHeader for the headers of the batch, then PopHeadersReadyForAcceptance
Redownload(batch, full) ==
  LET ok == Accepted(batch)
      everything == Everything(batch, Len(batch))
      buffered == buffer \o batch
      n == Popped(Len(buffered), everything)
      done == n = Len(buffered) /\ everything
  IN /\ IF ok THEN /\ released' = released \o FullHeaders(firstPrev, SubSeq(buffered, 1, n))
                   /\ redownloadWork' = redownloadWork + ChainWork(batch)
                   /\ got' = lastHash \o batch
                   /\ complete' = done
        ELSE UNCHANGED <<released, redownloadWork, got, complete>>
     /\ IF ~ok \/ done \/ ~full THEN Cleared
        ELSE /\ buffer' = SubSeq(buffered, n + 1, Len(buffered)) /\ firstPrev' = Hash(firstPrev, buffered, n)
             /\ lastHash' = lastHash \o batch /\ all' = everything
             /\ commitments' = SubSeq(commitments, Taken(batch, Len(batch)) + 1, Len(commitments))
             /\ UNCHANGED <<state, last>>
     /\ UNCHANGED <<work, seen>>

-----------------------------------------------------------------------------

\* TryLowWorkHeadersSync begins a sync with a full message that lacks the work by itself.
MayBegin ==
  Full /\ ChainWork(Batch) < MinWork

\* A headers message: IsContinuationOfLowWorkHeadersSync
ProcessNextHeaders ==
  /\ state # "FINAL" /\ Batch # <<>>
  /\ state = "PRESYNC" /\ last = <<>> => MayBegin
  /\ \E batch \in {Batch} :
       IF state = "PRESYNC" THEN Presync(batch, Full) ELSE Redownload(batch, Full)
  /\ UNCHANGED <<peer, reorgs, offset>>

\* An empty headers message while a sync is under way
EmptyHeaders ==
  /\ state # "FINAL" /\ seen # <<>> /\ Batch = <<>>
  /\ Cleared
  /\ UNCHANGED <<peer, reorgs, offset, work, redownloadWork, released, seen, got, complete>>

Next == PeerMines \/ PeerReorgs \/ ProcessNextHeaders \/ EmptyHeaders

Spec == Init /\ [][Next]_vars

\* The peer answers the requests.
FairSpec == Spec /\ WF_vars(ProcessNextHeaders \/ EmptyHeaders)

-----------------------------------------------------------------------------
(* Properties *)

\* What is released, over all messages, is one chain from the start: no header is skipped or
\* repeated, the previous hashes that the buffer had dropped are the right ones, and every
\* header has exactly the difficulty that its parent asks for.
ReleasedIsChain ==
  \A i \in 1 .. Len(released) :
    /\ released[i].prev = [j \in 1 .. i - 1 |-> released[j].header]
    /\ released[i].header.bits = Required(released[i].prev)

\* A header leaves the buffer when the second pass has shown the required work itself, or
\* when BufferSize more headers were checked: then the first pass had shown the work, and
\* every header of the second pass at a committed height, up to the last one received, has
\* the bit of the header of the first pass there.
ReleasedIsCovered ==
  released # <<>> /\ ChainWork(got) < MinWork =>
    /\ Len(got) >= Len(released) + BufferSize
    /\ ChainWork(seen) >= MinWork
    /\ \A n \in 1 .. Len(released) + BufferSize :
         Committed(SubSeq(got, 1, n)) =>
           n <= Len(seen) /\ SaltedBit(SubSeq(got, 1, n)) = SaltedBit(SubSeq(seen, 1, n))

\* Between messages a sync stores no more than m_max_commitments bits and BufferSize headers.
MemoryBounded == Len(commitments) <= MaxCommitments /\ Len(buffer) <= BufferSize

\* The peer has always served a chain with the right bits, one that only grew and that is not
\* longer than the median-time rule allows.
Honest ==
  /\ reorgs = 0
  /\ \A n \in 1 .. Len(peer) : peer[n].bits = Required(SubSeq(peer, 1, n - 1))
  /\ Cardinality({n \in 1 .. Len(peer) : n % Period = offset}) <= MaxCommitments

\* A sync with an honest peer whose chain has the work ends with all its headers released,
\* also when the chain grows between the two passes.
HonestCompletes ==
  state # "FINAL" /\ seen # <<>> /\ ChainWork(peer) >= MinWork ~> complete \/ ~Honest
=============================================================================
