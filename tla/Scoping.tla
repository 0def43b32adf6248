------------------------------- MODULE Scoping -------------------------------
(* What the scopes of the parser promise, stated without functions, upvalues  *)
(* or symbols: the open blocks form a stack of frames, a frame lists the      *)
(* names declared in it, and a name means its latest declaration in the       *)
(* innermost frame that has one.  A variable used from a function inside the  *)
(* one that declares it is captured.                                          *)
EXTENDS Naturals, Sequences, FiniteSets

CONSTANTS Names,   \* the names a program uses
          ENV      \* the name _ENV, one of them

VARIABLES env,     \* the open frames: [function, names, captured]
          meaning  \* what the name just read stands for: [variable, env]

vars == <<env, meaning>>

NOWHERE == <<0, 0>>
NoName  == [variable |-> NOWHERE, env |-> NOWHERE]

(* A declaration is the place <<frame, position>> it has in an environment.    *)
Places(e, n) ==
    UNION {{<<l, i>> : i \in {j \in DOMAIN e[l].names : e[l].names[j] = n}} : l \in DOMAIN e}

Inside(p, q) == p[1] < q[1] \/ (p[1] = q[1] /\ p[2] < q[2])

Innermost(e, n) ==
    LET places == Places(e, n)
    IN  IF places = {} THEN NOWHERE
        ELSE CHOOSE p \in places : \A q \in places \ {p} : Inside(q, p)

(* Of the places ps, those used from a function inside their own are captured. *)
Captured(e, ps) ==
    LET captured == {p \in ps : \E l \in p[1] + 1 .. Len(e) : e[l].function}
    IN  [l \in DOMAIN e |->
            [e[l] EXCEPT !.captured = @ \cup {p[2] : p \in {q \in captured : q[1] = l}}]]

Frame(function, names, captured) ==
    [function |-> function, names |-> names, captured |-> captured]

-----------------------------------------------------------------------------
(* Outside the program there is one frame, with the _ENV of the chunk.        *)
Init ==
    /\ env = <<Frame(TRUE, <<ENV>>, {1}), Frame(TRUE, <<>>, {})>>
    /\ meaning = NoName

Pass == meaning' = NoName /\ UNCHANGED env

(* A block or a function begins; a loop or a function comes with a name.      *)
Open ==
    /\ meaning' = NoName
    /\ LET e == env
       IN  env' \in {Append(e, Frame(f, ns, {})) :
                        f \in BOOLEAN, ns \in {<<>>} \cup {<<n>> : n \in Names}}

Close ==
    /\ meaning' = NoName
    /\ LET e == env
       IN  env' \in {SubSeq(e, 1, Len(e) - k) : k \in 1 .. 2}

Declare ==
    /\ meaning' = NoName
    /\ LET e == env
       IN  env' \in {[e EXCEPT ![Len(e)].names = Append(@, n)] : n \in Names}

(* A name without a declaration is a global: a field of whatever _ENV means.  *)
Refer ==
    LET e == env
    IN  \E n \in Names :
            LET v == Innermost(e, n)
                g == IF v = NOWHERE THEN Innermost(e, ENV) ELSE NOWHERE
            IN  /\ meaning' = [variable |-> v, env |-> g]
                /\ env' = Captured(e, {v, g} \ {NOWHERE})

Next == Pass \/ Open \/ Close \/ Declare \/ Refer

Spec == Init /\ [][Next]_vars
=============================================================================
