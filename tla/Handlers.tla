------------------------------ MODULE Handlers ------------------------------
(* Effect handlers by yielding (lib/std/core/hnd.kk, inline/hnd.c, hnd.h).  *)
(* There is no second stack: an operation that needs its continuation sets  *)
(* ctx->yielding and returns; every caller sees that, leaves a function for *)
(* the rest of its work in ctx->yield, and returns too, until the prompt of *)
(* the handler composes those functions into a resumption. Handlers are     *)
(* found in the evidence vector ctx->evv, which must follow the stack.      *)
EXTENDS Integers, Sequences, SequencesExt

CONSTANTS
    Labels,         \* numbers, ordered as the tags of effects are
    CONT_MAX,       \* KK_YIELD_CONT_MAX, at least 2
    Styles,         \* programs: [resumes: see MayResume, frames: what they use]
    DIRECT,         \* may an operation executed in place be called directly?
    MAX_USES,       \* bound: resumes of one resumption
    MAX_HANDLERS,   \* bound: prompts
    FUEL            \* bound: operations of the user's program

VARIABLES
    evv,        \* ctx->evv: [id: which block it is, ms: the markers in it]
    evs,        \* marker -> evidence: [label, hevv]
    vectors,    \* evidence vectors allocated so far
    stack,      \* frames of the C stack, innermost last
    now,        \* user code runs, a call returns, or a function is called
    yield,      \* ctx->yielding and ctx->yield
    uses,       \* clause -> times that it resumed (0: resumed is False)
    locals,     \* local variable -> its value
    runs,       \* finally -> times that its finalizer was run
    style, fuel
vars == <<evv, evs, vectors, stack, now, yield, uses, locals, runs, style, fuel>>

NONE    == 0
RUN     == [do |-> "run"]
RET     == [do |-> "ret"]
Call(fn, arg) == [do |-> "call", fn |-> fn, arg |-> arg]    \* arg: NONE, or a marker to finalize to
NoYield == [kind |-> "none", m |-> NONE, op |-> "none", conts |-> <<>>]
Yielding == yield.kind # "none"

---------------------------------------------------------------------------
(* evidence vectors: sorted by label, inner handlers first *)

EMPTY == [id |-> <<"empty">>, ms |-> <<>>]
Single(m) == [id |-> <<"ev", m>>, ms |-> <<m>>]             \* the evidence itself
Vector(ms) == [id |-> <<"vector", vectors>>, ms |-> ms]      \* a fresh block

(* mutant: a new handler goes behind those of the same effect               *)
EvvIndex_Behind(evidence, ms, label) ==
    LET at == {i \in 1 .. Len(ms) : label < evidence[ms[i]].label}
    IN IF at = {} THEN Len(ms) + 1 ELSE CHOOSE i \in at : \A j \in at : i <= j
EvvIndex(evidence, ms, label) ==
    LET at == {i \in 1 .. Len(ms) : label <= evidence[ms[i]].label}
    IN IF at = {} THEN Len(ms) + 1 ELSE CHOOSE i \in at : \A j \in at : i <= j
Inserted(evidence, ms, m) == InsertAt(ms, EvvIndex(evidence, ms, evidence[m].label), m)
Deleted(ms, i, behind) == IF Len(ms) <= 1 THEN <<>> ELSE RemoveAt(ms, IF behind THEN i + 1 ELSE i)
Selected(ms, is) == [i \in 1 .. Len(is) |-> ms[is[i]]]

EvvInsert(evidence, w, m) == IF w.ms = <<>> THEN Single(m) ELSE Vector(Inserted(evidence, w.ms, m))
EvvDelete(w, i, behind)   == IF Len(w.ms) <= 1 THEN EMPTY ELSE Vector(Deleted(w.ms, i, behind))
EvvSwapCreate(w, is) ==
    IF is = <<>> THEN EMPTY
    ELSE IF Len(is) = 1 THEN (IF w.id[1] = "vector" THEN Single(w.ms[is[1]]) ELSE w)
    ELSE Vector(Selected(w.ms, is))

---------------------------------------------------------------------------
(* continuations: functions that wait for the result of what yielded *)

User(u)        == [f |-> "user", u |-> u]
FORCE          == [f |-> "force"]               \* fn(f) f() of yield-to
Reyield(yld)   == [f |-> "reyield", yld |-> yld]
Apply(closure, cont) == [f |-> "apply", closure |-> closure, cont |-> cont]
Compose(conts) == IF conts = <<>> THEN [f |-> "id"]
                  ELSE IF Len(conts) = 1 THEN conts[1] ELSE [f |-> "compose", conts |-> conts]

(* mutant: the composition of a full array replaces the new continuation     *)
YieldExtend_Lost(y, next) ==
    IF y.kind = "final" THEN y
    ELSE IF Len(y.conts) >= CONT_MAX THEN [y EXCEPT !.conts = <<Compose(y.conts)>>]
    ELSE [y EXCEPT !.conts = Append(@, next)]
YieldExtend(y, next) ==
    IF y.kind = "final" THEN y
    ELSE [y EXCEPT !.conts = Append(IF Len(@) >= CONT_MAX THEN <<Compose(@)>> ELSE @, next)]
YieldCont(y, closure) ==
    IF y.kind = "final" THEN y ELSE [y EXCEPT !.conts = <<Apply(closure, Compose(@))>>]
YieldTo(m, op)    == YieldExtend([kind |-> "normal", m |-> m, op |-> op, conts |-> <<>>], FORCE)
YieldFinal(m, op) == [kind |-> "final", m |-> m, op |-> op, conts |-> <<>>]

---------------------------------------------------------------------------
(* the user's program *)

Top   == Last(stack)
Below == Front(stack)
Around  == {evs[m].label : m \in ToSet(evv.ms)}              \* effects that may be used
Uses(frame) == frame \in style.frames
Running == now = RUN /\ fuel > 0 /\ fuel' = fuel - 1
Run(pushed, w) == /\ Running
                  /\ stack' = stack \o pushed /\ evv' = w
                  /\ vectors' = vectors + 1
                  /\ now' = RUN /\ UNCHANGED <<yield, style>>

Init == /\ evv = EMPTY /\ evs = <<>> /\ vectors = 0
        /\ stack = <<>> /\ now = RUN /\ yield = NoYield
        /\ uses = <<>> /\ locals = <<>> /\ runs = <<>>
        /\ style \in Styles /\ fuel = FUEL

(* a call, with more to do after it *)
Bind == Uses("bind") /\ Run(<<[f |-> "bind", u |-> fuel]>>, evv) /\ UNCHANGED <<evs, uses, locals, runs>>

Prompt(w0, w1, m) == [f |-> "prompt", w0 |-> w0, w1 |-> w1, m |-> m]
HHandle == \E l \in Labels :
    LET m  == Len(evs) + 1
        es == Append(evs, [label |-> l, hevv |-> evv])
        w1 == EvvInsert(es, evv, m)
    IN /\ Len(evs) < MAX_HANDLERS
       /\ evs' = es
       /\ Run(<<Prompt(evv, w1, m)>>, w1)
       /\ UNCHANGED <<uses, locals, runs>>

MaskAt == \E l \in Around, behind \in BOOLEAN :
    LET i == EvvIndex(evs, evv.ms, l)
    IN /\ Uses("mask")
       /\ behind => i < Len(evv.ms) /\ evs[evv.ms[i + 1]].label = l
       /\ Run(<<[f |-> "mask", w0 |-> evv, i |-> i, behind |-> behind]>>, EvvDelete(evv, i, behind))
       /\ UNCHANGED <<evs, uses, locals, runs>>

OpenFrame(is) == [f |-> "open", w0 |-> evv, is |-> is]
Open == \E is \in {s \in UNION {[1 .. n -> DOMAIN evv.ms] : n \in 0 .. 2} : Len(s) = 2 => s[1] < s[2]} :
    /\ Uses("open") /\ Len(is) < Len(evv.ms)
    /\ Run(<<OpenFrame(is)>>, EvvSwapCreate(evv, is))
    /\ UNCHANGED <<evs, uses, locals, runs>>

Finally == /\ Uses("finally")
           /\ runs' = Append(runs, 0)
           /\ Run(<<[f |-> "finally", n |-> Len(runs')]>>, evv)
           /\ UNCHANGED <<evs, uses, locals>>
LocalVar == /\ Uses("local")
            /\ locals' = Append(locals, 0)
            /\ Run(<<[f |-> "local", n |-> Len(locals')]>>, evv)
            /\ UNCHANGED <<evs, uses, runs>>
Assign == /\ \E p \in DOMAIN stack : stack[p].f = "local" /\ locals' = [locals EXCEPT ![stack[p].n] = 1 - @]
          /\ Run(<<>>, evv)
          /\ UNCHANGED <<evs, uses, runs>>

(* an operation needs just one handler: it is called by open-at, unless its *)
(* effect is all that the type of the caller has                            *)
Perform(op(_, _, _)) == \E l \in Around :
    LET i == EvvIndex(evs, evv.ms, l)
        m == evv.ms[i]
    IN \/ Len(evv.ms) = 1 /\ op(m, <<>>, evv)
       \/ op(m, <<OpenFrame(<<i>>)>>, EvvSwapCreate(evv, <<i>>))
Yields(pushed, w, y) ==
    /\ Running
    /\ stack' = stack \o pushed /\ evv' = w /\ yield' = y /\ now' = RET
    /\ UNCHANGED <<evs, vectors, uses, locals, runs, style>>
PerformControl == Perform(LAMBDA m, pushed, w : Yields(pushed, w, YieldTo(m, "control")))
PerformNever   == Perform(LAMBDA m, pushed, w : Yields(pushed, w, YieldFinal(m, "never")))
PerformTail    == Perform(LAMBDA m, pushed, w :
    /\ pushed = <<>> => DIRECT
    /\ Run(pushed \o <<[f |-> "under", w0 |-> w, m |-> m]>>, evs[m].hevv)
    /\ UNCHANGED <<evs, uses, locals, runs>>)

(* k of the innermost clause that runs; it resumes at most once, or more    *)
(* often but with the handlers of the clause itself, or in any way          *)
Resumption(p) == stack[p].k
MayResume(p) ==
    LET c == stack[p].cell
    IN /\ stack[p].f = "protect"
       /\ \A q \in p + 1 .. Len(stack) : /\ stack[q].f \notin {"protect", "under"}
                                         /\ stack[q].f = "prompt" => stack[q].m # Resumption(p).m
       /\ uses[c] < IF style.resumes = "once" THEN 1 ELSE MAX_USES
       /\ style.resumes = "inside" => evv.id = Resumption(p).w0.id

(* back into the prompt; under other handlers than before, the evidence is   *)
(* inserted into those, and updated in place                                 *)
Reenter(k, frames, arg) ==
    LET same == evv.id = k.w0.id
        w1   == IF same THEN k.w1 ELSE EvvInsert(evs, evv, k.m)
    IN /\ evs' = IF same THEN evs ELSE [evs EXCEPT ![k.m].hevv = evv]
       /\ evv' = w1 /\ vectors' = vectors + 1
       /\ stack' = Append(frames, Prompt(evv, w1, k.m))
       /\ now' = Call(k.cont, arg)
Resume == \E p \in DOMAIN stack :
    /\ Running /\ MayResume(p)
    /\ uses' = [uses EXCEPT ![stack[p].cell] = @ + 1]
    /\ Reenter(Resumption(p), stack, NONE)
    /\ UNCHANGED <<yield, locals, runs, style>>

Return == /\ now = RUN /\ now' = RET
          /\ UNCHANGED <<evv, evs, vectors, stack, yield, uses, locals, runs, style, fuel>>
UserStep == \/ Bind \/ HHandle \/ MaskAt \/ Open \/ Finally \/ LocalVar \/ Assign
         \/ PerformControl \/ PerformNever \/ PerformTail \/ Resume \/ Return

---------------------------------------------------------------------------
(* a call returns to the frame that made it *)

Returning(kind) == now = RET /\ stack # <<>> /\ Top.f = kind
Pop(w, y, next) ==
    /\ stack' = Below /\ evv' = w /\ yield' = y /\ now' = next
    /\ UNCHANGED <<evs, vectors, uses, locals, runs, style, fuel>>
(* leave closure for the rest of the work, when something yields *)
Continue(w, closure) == Pop(w, IF Yielding THEN YieldCont(yield, closure) ELSE yield, RET)

RetBind == Returning("bind") /\ IF Yielding THEN Pop(evv, YieldExtend(yield, User(Top.u)), RET)
                                            ELSE Pop(evv, yield, RUN)
RetMask == Returning("mask") /\ Continue(Top.w0, [f |-> "mask", i |-> Top.i, behind |-> Top.behind])
RetOpen == Returning("open") /\ Continue(Top.w0, [f |-> "open", is |-> Top.is])
RetUnder == Returning("under") /\ Continue(IF Yielding THEN evv ELSE Top.w0, [f |-> "under", m |-> Top.m])
RetLocal == Returning("local") /\ Continue(evv, [f |-> "local", n |-> Top.n, v |-> locals[Top.n]])

KCompose == Returning("compose") /\
    IF Yielding THEN Pop(evv, FoldLeft(YieldExtend, yield, Top.rest), RET)
    ELSE IF Top.rest = <<>> THEN Pop(evv, yield, RET)
    ELSE /\ stack' = Append(Below, [f |-> "compose", rest |-> Tail(Top.rest)])
         /\ now' = Call(Head(Top.rest), NONE)
         /\ UNCHANGED <<evv, evs, vectors, yield, uses, locals, runs, style, fuel>>

(* guard, evv-set and yield-prompt *)
RetPrompt == Returning("prompt") /\
    IF evv.id # Top.w1.id
    THEN now' = [do |-> "fatal"] /\ UNCHANGED <<evv, evs, vectors, stack, yield, uses, locals, runs, style, fuel>>
    ELSE \/ ~ Yielding /\ Pop(Top.w0, yield, RUN)           \* ret(result)
         \/ Yielding /\ yield.m # Top.m
            /\ Pop(Top.w0, YieldCont(yield, [f |-> "prompt", w0 |-> Top.w0, w1 |-> Top.w1, m |-> Top.m]), RET)
         \/ /\ yield.kind = "final" /\ yield.m = Top.m
            /\ Pop(Top.w0, NoYield, IF yield.op = "never" THEN RUN ELSE RET)
         \/ /\ yield.kind = "normal" /\ yield.m = Top.m      \* clause(resume), under protect
            /\ LET k == [m |-> Top.m, w0 |-> Top.w0, w1 |-> Top.w1, cont |-> Compose(yield.conts)]
               IN /\ uses' = Append(uses, 0)
                  /\ stack' = Append(Below, [f |-> "protect", cell |-> Len(uses'), k |-> k])
            /\ evv' = Top.w0 /\ yield' = NoYield /\ now' = RUN
            /\ UNCHANGED <<evs, vectors, locals, runs, style, fuel>>

(* finally-prompt; fin: its finalizer runs, after a yield that was captured *)
RetFinally == Returning("finally") /\
    IF yield.kind = "normal" THEN Continue(evv, [f |-> "finally", n |-> Top.n])
    ELSE /\ stack' = Append(Below, [f |-> "fin", yld |-> yield])
         /\ runs' = [runs EXCEPT ![Top.n] = @ + 1]
         /\ yield' = NoYield /\ now' = RUN
         /\ UNCHANGED <<evv, evs, vectors, uses, locals, style, fuel>>
RetFin == Returning("fin") /\
    LET yld == Top.yld
    IN IF Yielding THEN Pop(evv, YieldExtend(yield, IF yld = NoYield THEN User(0) ELSE Reyield(yld)), RET)
       ELSE Pop(evv, yld, RET)

(* mutant: a clause that resumed is finalized all the same                   *)
RetProtect_Always == Returning("protect") /\
    LET c == Top.cell
        finalize(frames) == /\ Reenter(Top.k, frames, Top.k.m) /\ yield' = NoYield
                            /\ UNCHANGED <<uses, locals, runs, style, fuel>>
    IN IF yield.kind = "normal" THEN Continue(evv, [f |-> "protect", cell |-> c, k |-> Top.k])
       ELSE IF Yielding THEN finalize(Append(Below, [f |-> "fin", yld |-> yield]))
       ELSE finalize(Below)
(* protect-prompt: k(Finalize(res)) unless the clause has resumed *)
RetProtect == Returning("protect") /\
    LET c == Top.cell
        finalize(frames) == /\ Reenter(Top.k, frames, Top.k.m) /\ yield' = NoYield
                            /\ UNCHANGED <<uses, locals, runs, style, fuel>>
    IN IF uses[c] > 0 THEN Pop(evv, yield, RET)
       ELSE IF yield.kind = "normal" THEN Continue(evv, [f |-> "protect", cell |-> c, k |-> Top.k])
       ELSE IF Yielding THEN finalize(Append(Below, [f |-> "fin", yld |-> yield]))
       ELSE finalize(Below)

Done == /\ now = RET /\ stack = <<>> /\ now' = [do |-> "done"]
        /\ UNCHANGED <<evv, evs, vectors, stack, yield, uses, locals, runs, style, fuel>>
Returns == \/ RetBind \/ RetMask \/ RetOpen \/ RetUnder \/ RetLocal \/ KCompose
           \/ RetPrompt \/ RetFinally \/ RetFin \/ RetProtect \/ Done

---------------------------------------------------------------------------
(* a continuation is called *)

Calling(kind) == now.do = "call" /\ now.fn.f = kind
Go(next, y) == /\ now' = next /\ yield' = y
               /\ UNCHANGED <<evv, evs, vectors, stack, uses, locals, runs, style, fuel>>

CallUser == Calling("user") /\ Go(IF now.fn.u = 0 THEN RET ELSE RUN, yield)
CallForce == Calling("force") /\ Go(RET, IF now.arg = NONE THEN yield ELSE YieldFinal(now.arg, "value"))
CallReyield == Calling("reyield") /\ Go(RET, now.fn.yld)
CallCompose == /\ Calling("compose")
               /\ stack' = Append(stack, [f |-> "compose", rest |-> Tail(now.fn.conts)])
               /\ now' = Call(Head(now.fn.conts), now.arg)
               /\ UNCHANGED <<evv, evs, vectors, yield, uses, locals, runs, style, fuel>>

Applying(kind) == Calling("apply") /\ now.fn.closure.f = kind
Rebuild(frame, w) == /\ stack' = Append(stack, frame) /\ evv' = w /\ vectors' = vectors + 1
                     /\ now' = Call(now.fn.cont, now.arg)
                     /\ UNCHANGED <<yield, uses, runs, style, fuel>>
CallClosure ==
    LET c == now.fn.closure
    IN \/ /\ Applying("prompt")
          /\ Reenter([m |-> c.m, w0 |-> c.w0, w1 |-> c.w1, cont |-> now.fn.cont], stack, now.arg)
          /\ UNCHANGED <<yield, uses, locals, runs, style, fuel>>
       \/ /\ \/ Applying("mask") /\ Rebuild([f |-> "mask", w0 |-> evv, i |-> c.i, behind |-> c.behind],
                                            EvvDelete(evv, c.i, c.behind))
             \/ Applying("open") /\ Rebuild(OpenFrame(c.is), EvvSwapCreate(evv, c.is))
             \/ Applying("under") /\ Rebuild([f |-> "under", w0 |-> evv, m |-> c.m], evs[c.m].hevv)
             \/ Applying("finally") /\ Rebuild(c, evv)
             \/ Applying("protect") /\ Rebuild(c, evv)
          /\ UNCHANGED <<evs, locals>>
       \/ /\ Applying("local") /\ Rebuild([f |-> "local", n |-> c.n], evv)
          /\ locals' = [locals EXCEPT ![c.n] = c.v] /\ UNCHANGED evs
Calls == CallUser \/ CallForce \/ CallReyield \/ CallCompose \/ CallClosure

Next == UserStep \/ Returns \/ Calls
Spec == Init /\ [][Next]_vars

---------------------------------------------------------------------------
(* the stack that frames and continuations stand for *)

RECURSIVE Frames(_), Context(_)
Frame(fr) ==
    CASE fr.f = "bind"    -> [f |-> "user", u |-> fr.u]
      [] fr.f = "prompt"  -> [f |-> "prompt", m |-> fr.m]
      [] fr.f = "mask"    -> [f |-> "mask", i |-> fr.i, behind |-> fr.behind]
      [] fr.f = "open"    -> [f |-> "open", is |-> fr.is]
      [] fr.f = "under"   -> [f |-> "under", m |-> fr.m]
      [] fr.f = "fin"     -> IF fr.yld = NoYield THEN [f |-> "user", u |-> 0] ELSE [f |-> "reyield", m |-> fr.yld.m]
      [] fr.f = "protect" -> [f |-> "clause", cell |-> fr.cell, m |-> fr.k.m, saved |-> Frames(fr.k.cont)]
      [] fr.f = "local"   -> [f |-> "local", n |-> fr.n, v |-> IF "v" \in DOMAIN fr THEN fr.v ELSE locals[fr.n]]
      [] OTHER            -> fr
Frames(fn) ==
    CASE fn.f = "user"    -> <<fn>>
      [] fn.f = "reyield" -> <<[f |-> "reyield", m |-> fn.yld.m]>>
      [] fn.f = "compose" -> FoldLeft(LAMBDA s, c : Frames(c) \o s, <<>>, fn.conts)
      [] fn.f = "apply"   -> <<Frame(fn.closure)>> \o Frames(fn.cont)
      [] OTHER            -> <<>>
Whole ==
    FoldLeft(LAMBDA s, fr : s \o (IF fr.f = "compose" THEN Frames(Compose(fr.rest)) ELSE <<Frame(fr)>>), <<>>, stack)
        \o (IF yield.kind = "normal" THEN Frames(Compose(yield.conts))
            ELSE IF now.do = "call" THEN Frames(now.fn) ELSE <<>>)
EscapeTo == IF yield.kind = "final" THEN yield.m ELSE IF now.do = "call" THEN now.arg ELSE NONE

Control == INSTANCE Control WITH
    frames <- Whole, escape <- EscapeTo, resumed <- {c \in DOMAIN uses : uses[c] > 0},
    running <- now = RUN

(* Yielding, composing continuations and running them again implement       *)
(* delimited control: whatever is yielded through whatever frames, the      *)
(* frames left behind and those rebuilt later are exactly those of the      *)
(* stack, with the same local variables, and finalizers run on every exit.  *)
Delimited == Control!ControlSpec

(* the handlers that the frames of a stack provide *)
Context(fs) ==
    IF fs = <<>> THEN <<>>
    ELSE LET fr   == Last(fs)
             rest == Front(fs)
             below(m) == CHOOSE p \in DOMAIN rest : /\ rest[p].f = "prompt" /\ rest[p].m = m
                                                    /\ \A q \in p + 1 .. Len(rest) : rest[q].f # "prompt" \/ rest[q].m # m
             side(in(_)) == SelectSeq(Context(rest), LAMBDA m : in(evs[m].label))
         IN CASE fr.f = "prompt" -> side(LAMBDA l : l < evs[fr.m].label) \o <<fr.m>> \o side(LAMBDA l : l >= evs[fr.m].label)
              [] fr.f = "mask"   -> Deleted(Context(rest), fr.i, fr.behind)
              [] fr.f = "open"   -> Selected(Context(rest), fr.is)
              [] fr.f = "under"  -> Context(SubSeq(rest, 1, below(fr.m) - 1))
              [] OTHER           -> Context(rest)

(* User code runs with the evidence of the handlers around it, as its       *)
(* frames install, mask, select or leave them, also after it was resumed    *)
(* elsewhere (hnd.kk:68: "the evidence vector of the answer context where   *)
(* the handler was defined").                                               *)
EvidenceExact == now = RUN => evv.ms = Context(Whole)

(* A program whose clauses resume at most once runs every finalizer exactly *)
(* once, and any program at least once; no operation is left unhandled, and *)
(* the check of the evidence in prompt never fails.                         *)
Finalized ==
    /\ now.do # "fatal"
    /\ style.resumes = "once" => \A n \in DOMAIN runs : runs[n] <= 1
    /\ now.do = "done" => ~ Yielding /\ \A n \in DOMAIN runs : runs[n] >= 1
=============================================================================
