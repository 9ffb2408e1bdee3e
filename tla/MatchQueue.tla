----------------------------- MODULE MatchQueue -----------------------------
(***************************************************************************)
(* match/match_queue.cpp: parties wait for another party with a rating     *)
(* close to their own; the longer both have waited, the less close it has  *)
(* to be. A candidate's enqueue_time is kept as the seconds since then, up *)
(* to MaxWait, at which any two ratings are close enough.                  *)
(***************************************************************************)
EXTENDS Integers, SequencesExt

CONSTANTS
    Parties,            \* party ids other than 0, which enqueue refuses
    Ratings,            \* values of mmr
    Sizes,              \* party sizes that callers pass
    MaxMmrDelta,        \* MatchRule::max_mmr_delta
    ExpansionPerSecond, \* MatchRule::expansion_per_second
    MinPartySize,       \* MatchRule::min_party_size
    MaxPartySize,       \* MatchRule::max_party_size
    MaxWait             \* waits longer than this are not told apart

Distance(m, n) == IF m < n THEN n - m ELSE m - n

ASSUME MatchConstants ==
    /\ Ratings \subseteq Int /\ Sizes \subseteq Nat
    /\ MaxMmrDelta \in Nat /\ ExpansionPerSecond \in Nat /\ MaxWait \in Nat
    /\ MinPartySize \in Nat /\ MaxPartySize \in Nat
    /\ \A m, n \in Ratings : Distance(m, n) <= MaxMmrDelta + ExpansionPerSecond * MaxWait

VARIABLE queue      \* queue_

InRule(size) == size \in MinPartySize .. MaxPartySize

PlaceOf(p) == {i \in DOMAIN queue : queue[i].party = p}

MatchInit == queue = <<>>

-----------------------------------------------------------------------------
(* Mutant: a party that is in the queue already is queued once more. *)
EnqueueAgain(p, mmr, size) ==
    /\ InRule(size)
    /\ queue' = Append(queue, [party |-> p, mmr |-> mmr, size |-> size, wait |-> 0])

(* Mutant: a party that is in the queue already goes to its end. *)
EnqueueLast(p, mmr, size) ==
    /\ InRule(size)
    /\ queue' = Append(SelectSeq(queue, LAMBDA c : c.party # p),
                       [party |-> p, mmr |-> mmr, size |-> size, wait |-> 0])

(* A party that is in the queue already gets a new entry in its old place. *)
Enqueue(p, mmr, size) ==
    /\ InRule(size)
    /\ LET candidate == [party |-> p, mmr |-> mmr, size |-> size, wait |-> 0]
       IN  \/ PlaceOf(p) = {} /\ queue' = Append(queue, candidate)
           \/ \E i \in PlaceOf(p) : queue' = [queue EXCEPT ![i] = candidate]

(* remove_if finds one entry: a party waits in one place (MatchTypeOK). *)
Cancel(p) == \E i \in PlaceOf(p) : queue' = RemoveAt(queue, i)

(* The wait begins anew; a party that no longer fits the rule has to go. *)
UpdatePartySize(p, size) ==
    \E i \in PlaceOf(p) :
        \/ ~InRule(size) /\ queue' = RemoveAt(queue, i)
        \/ InRule(size) /\ queue' = [queue EXCEPT ![i] = [@ EXCEPT !.size = size, !.wait = 0]]

-----------------------------------------------------------------------------
Compatible(c, d) ==
    LET wait == IF c.wait < d.wait THEN c.wait ELSE d.wait
    IN  /\ InRule(c.size) /\ InRule(d.size)
        /\ Distance(c.mmr, d.mmr) <= MaxMmrDelta + ExpansionPerSecond * wait

Pairs ==
    {p \in (DOMAIN queue) \X (DOMAIN queue) :
        p[1] < p[2] /\ Compatible(queue[p[1]], queue[p[2]])}

(* Mutant: the search begins with the candidates that came last. *)
LastPair ==
    {p \in Pairs : \A q \in Pairs : q[2] < p[2] \/ (q[2] = p[2] /\ q[1] <= p[1])}

(* The pair the two loops meet first. *)
FirstPair ==
    {p \in Pairs : \A q \in Pairs : p[1] < q[1] \/ (p[1] = q[1] /\ p[2] <= q[2])}

FindMatch == \E p \in FirstPair : queue' = RemoveAt(RemoveAt(queue, p[2]), p[1])

Elapse ==
    queue' = [i \in DOMAIN queue |->
                [queue[i] EXCEPT !.wait = IF @ < MaxWait THEN @ + 1 ELSE @]]

MatchNext ==
    \/ \E p \in Parties :
        \/ \E size \in Sizes :
            \/ \E mmr \in Ratings : Enqueue(p, mmr, size)
            \/ UpdatePartySize(p, size)
        \/ Cancel(p)
    \/ FindMatch
    \/ Elapse

(* Time passes, and the owner of the queue keeps looking for matches.        *)
MatchSpec ==
    MatchInit /\ [][MatchNext]_queue /\ WF_queue(FindMatch) /\ WF_queue(Elapse)

-----------------------------------------------------------------------------
(* Type invariant of the queue: every candidate fits the rule, and no party  *)
(* waits in two places, where it could be matched with itself.               *)
MatchTypeOK ==
    /\ queue \in Seq([party : Parties, mmr : Ratings, size : Sizes, wait : 0 .. MaxWait])
    /\ \A i \in DOMAIN queue : InRule(queue[i].size)
    /\ \A i, j \in DOMAIN queue : queue[i].party = queue[j].party => i = j

Before(q, p, r) ==
    \E i, j \in DOMAIN q : i < j /\ q[i].party = p /\ q[j].party = r

(* No call lets one party overtake another: whoever asked first is looked at *)
(* first, also after a change of its size or a repeated request.             *)
NoOvertaking ==
    [][\A p, r \in Parties : Before(queue, p, r) => ~Before(queue', r, p)]_queue

WaitedLong(p) == \E i \in PlaceOf(p) : queue[i].wait = MaxWait

(* Two parties do not both wait for ever: unless one of them is cancelled or *)
(* changed again and again, one is matched, whoever else comes and goes.     *)
NobodyStarves ==
    \A p, r \in Parties : p # r => []<>~(WaitedLong(p) /\ WaitedLong(r))
=============================================================================
