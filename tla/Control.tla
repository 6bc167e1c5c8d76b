------------------------------ MODULE Control ------------------------------
(* What effect handlers promise: delimited control on one stack of frames.  *)
(* An operation cuts the stack at the prompt of its handler and gives the   *)
(* cut piece to a clause; resuming puts the piece back, frame by frame as   *)
(* it was, with the local variables that it had; an escape removes frames,  *)
(* and runs each finalizer that it meets before it goes on.                 *)
EXTENDS Naturals, Sequences, SequencesExt

VARIABLES
    frames,     \* innermost last
    escape,     \* marker of the prompt that the stack is unwound to, or NONE
    resumed,    \* the clauses that have resumed
    running     \* does the user's code run? (an input, not constrained)
controlVars == <<frames, escape, resumed>>

NONE   == 0
Top    == Last(frames)
Below  == Front(frames)
OnTop(kind) == frames # <<>> /\ Top.f = kind
Piece(clause) == <<[f |-> "prompt", m |-> clause.m]>> \o clause.saved
Unresumed == OnTop("clause") /\ Top.cell \notin resumed

ControlInit == frames = <<>> /\ escape = NONE /\ resumed = {}

(* call: one frame, or two for an operation executed in place *)
Enter == /\ escape = NONE /\ Len(frames') \in Len(frames) + 1 .. Len(frames) + 2
         /\ SubSeq(frames', 1, Len(frames)) = frames
         /\ UNCHANGED resumed
Leave == /\ frames # <<>> /\ frames' = Below /\ escape = NONE /\ escape' = NONE
         /\ ~ Unresumed /\ Top.f \notin {"finally", "reyield"}
         /\ UNCHANGED resumed
Assign == /\ running /\ running' /\ escape = NONE /\ UNCHANGED <<escape, resumed>>
          /\ \E p \in DOMAIN frames : /\ frames[p].f = "local"
                                      /\ \E v \in {0, 1} : frames' = [frames EXCEPT ![p].v = v]

Capture == \E p \in DOMAIN frames :
    /\ escape = NONE /\ frames[p].f = "prompt"
    /\ \A q \in p + 1 .. Len(frames) : frames[q].f # "prompt" \/ frames[q].m # frames[p].m
    /\ Len(frames') = p /\ Last(frames').f = "clause"
    /\ frames' = Append(SubSeq(frames, 1, p - 1),
                        [f |-> "clause", cell |-> Last(frames').cell, m |-> frames[p].m,
                         saved |-> SubSeq(frames, p + 1, Len(frames))])
    /\ UNCHANGED <<escape, resumed>>
Resume == \E p \in DOMAIN frames :
    /\ escape = NONE /\ frames[p].f = "clause"
    /\ frames' = frames \o Piece(frames[p])
    /\ resumed' = resumed \cup {frames[p].cell}
    /\ UNCHANGED escape
(* a clause that ends without having resumed unwinds what it did not resume *)
Abandon == /\ Unresumed
           /\ frames' = (IF escape = NONE THEN Below ELSE Append(Below, [f |-> "reyield", m |-> escape])) \o Piece(Top)
           /\ escape' = Top.m
           /\ UNCHANGED resumed

(* a clause that has resumed has nothing left to unwind *)
Forget == \E p \in DOMAIN frames :
    /\ frames[p].f = "clause" /\ frames[p].cell \in resumed
    /\ frames' = RemoveAt(frames, p)
    /\ UNCHANGED <<escape, resumed>>

Escape == /\ escape = NONE /\ escape' # NONE /\ UNCHANGED resumed
          /\ \E p \in DOMAIN frames : frames[p].f = "prompt" /\ frames[p].m = escape'
          /\ Len(frames') \in Len(frames) .. Len(frames) + 1 /\ SubSeq(frames', 1, Len(frames)) = frames
Unwind == /\ escape # NONE /\ UNCHANGED <<escape, resumed>>
          /\ Len(frames') < Len(frames) /\ frames' = SubSeq(frames, 1, Len(frames'))
          /\ \A p \in Len(frames') + 1 .. Len(frames) :
               \/ frames[p].f = "prompt" /\ frames[p].m # escape
               \/ frames[p].f = "clause" /\ frames[p].cell \in resumed
               \/ frames[p].f \notin {"prompt", "clause", "finally"}
Land == /\ OnTop("prompt") /\ Top.m = escape /\ escape # NONE
        /\ frames' = Below /\ escape' = NONE /\ UNCHANGED resumed
Finalizer == /\ OnTop("finally") /\ escape' = NONE /\ UNCHANGED resumed
             /\ frames' = Append(Below, IF escape = NONE THEN [f |-> "user", u |-> 0] ELSE [f |-> "reyield", m |-> escape])
EscapeAgain == /\ OnTop("reyield") /\ escape = NONE
               /\ frames' = Below /\ escape' = Top.m /\ UNCHANGED resumed

ControlNext ==
    /\ controlVars' # controlVars
    /\ \/ Enter \/ Leave \/ Assign \/ Capture \/ Resume \/ Abandon \/ Forget
       \/ Escape \/ Unwind \/ Land \/ Finalizer \/ EscapeAgain
ControlSpec == ControlInit /\ [][ControlNext]_controlVars
=============================================================================
