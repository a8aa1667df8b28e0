---------------------------- MODULE SegmentQueue ----------------------------
(***************************************************************************)
(* What the ring buffer of a pipe promises: a queue of segments, each with *)
(* control data and then normal data.  The bytes of normal data are        *)
(* numbered in the order they are sent.                                    *)
(***************************************************************************)
EXTENDS Naturals, Sequences

CONSTANTS ControlItems,  \* what control data consists of
          MaxSent        \* bound: how many bytes are sent

VARIABLES segments, sent

Items(seg) == seg.ancillary \o seg.normal
Last == segments[Len(segments)]
Empty == [ancillary |-> <<>>, normal |-> <<>>]

Init == segments = <<>> /\ sent = 0

\* Put a segment in place of the last one.
PutLast(seg) == [segments EXCEPT ![Len(segments)] = seg]

\* Control data starts a new segment unless the last one is all control data.
PutControl(x) ==
  /\ segments' =
       IF segments # <<>> /\ Last.normal = <<>>
       THEN PutLast([Last EXCEPT !.ancillary = Append(@, x)])
       ELSE Append(segments, [Empty EXCEPT !.ancillary = <<x>>])
  /\ UNCHANGED sent

\* Normal data continues the last segment.
PutNormal(n) ==
  LET bytes == [i \in 1..n |-> sent + i]
  IN /\ segments' = IF segments # <<>>
                    THEN PutLast([Last EXCEPT !.normal = @ \o bytes])
                    ELSE <<[Empty EXCEPT !.normal = bytes]>>
     /\ sent' = sent + n

\* The sender takes back the control data it put last.
Undo ==
  /\ segments # <<>> /\ Last.normal = <<>>
  /\ LET n == Len(Last.ancillary)
         rest == SubSeq(Last.ancillary, 1, n - 1)
     IN segments' = IF n = 1 THEN SubSeq(segments, 1, Len(segments) - 1)
                    ELSE PutLast([Last EXCEPT !.ancillary = rest])
  /\ UNCHANGED sent

\* Take n items out of the first segment: control data, and normal data once
\* there is none of it left.
Take(n) ==
  LET part == IF Head(segments).ancillary # <<>> THEN "ancillary" ELSE "normal"
      rest == [Head(segments) EXCEPT ![part] = SubSeq(@, n + 1, Len(@))]
  IN /\ segments # <<>>
     /\ n <= Len(Head(segments)[part])
     /\ segments' = (IF Items(rest) = <<>> THEN <<>> ELSE <<rest>>) \o Tail(segments)
     /\ UNCHANGED sent

Next ==
  \/ \E x \in ControlItems : PutControl(x)
  \/ \E n \in 1..MaxSent - sent : PutNormal(n)
  \/ \E n \in 1..MaxSent : Take(n)
  \/ Undo

Spec == Init /\ [][Next]_<<segments, sent>>

=============================================================================
