----------------------------- MODULE MCVasmBuild ----------------------------
(***************************************************************************)
(* Two scripts and three headers, of which one may not exist, with all the *)
(* ways to include one another that the sequences below give: a header     *)
(* twice, in either order, a diamond, a cycle, a header that includes the  *)
(* script.  Each file marks its instructions with its own name; each tag   *)
(* has the name of its file.                                               *)
(***************************************************************************)
EXTENDS VasmBuild

MCRegNames == {"RAX", "SR", "CR"}
MCAssignable == {"RAX"}

NoArg == [kind |-> "none"]
Lit(x) == [kind |-> "lit", of |-> x]
Sym(x) == [kind |-> "sym", of |-> x]
Line(kind, name, dest, arg) == [kind |-> kind, name |-> name, dest |-> dest, arg |-> arg]
Other(kind, name) == Line(kind, name, NoDest, NoArg)
Ins(name, dest, arg) == Line("ins", name, dest, arg)

Includes(gs) == [k \in DOMAIN gs |-> Other("include", gs[k])]

(* A script declares v twice, says the size of an operand, calls every tag *)
(* and begins with a tag if lead.                                          *)
Script(f, gs, lead, last) ==
    Includes(gs)
    \o (IF lead THEN <<Other("tag", "lead")>> ELSE <<>>)
    \o <<Ins("set", "RAX", Lit(f)), Line("decl", "v", NoDest, Lit("first")), Line("decl", "v", NoDest, Lit("second")),
         Other("tag", f), Ins("push", NoDest, Lit(f)), Other("mres", 3),
         Ins("call", NoDest, Sym(f)), Ins("call", NoDest, Sym("a")), Ins("call", NoDest, Sym("b")),
         Ins("call", NoDest, Sym("c")), Ins("set", "RAX", Sym("v")), Ins("mov", "RAX", Sym("RAX")),
         Other("size", 4), last>>

Header(f, gs) ==
    Includes(gs) \o <<Other("mres", 2), Ins("set", "RAX", Lit(f)), Other("tag", f),
                      Ins("pow", NoDest, Lit(f)), Ins("ret", NoDest, NoArg)>>

Hlt == Ins("hlt", NoDest, NoArg)
SetSR == Ins("set", "SR", NoArg)

MCFileSystems ==
    {("m1" :> Script("m1", m1, lead, Hlt)) @@ ("m2" :> Script("m2", m2, FALSE, last))
        @@ ("a" :> Header("a", a)) @@ ("b" :> Header("b", b)) @@ c:
        m1 \in {<<>>, <<"a">>, <<"a", "a", "b">>, <<"b", "a">>, <<"a", "b", "c">>},
        m2 \in {<<>>, <<"b">>, <<"m1">>},
        a \in {<<>>, <<"b">>, <<"c">>, <<"m1">>},
        b \in {<<>>, <<"a">>, <<"c", "b">>},
        c \in {<<>>, "c" :> Header("c", <<>>), "c" :> Header("c", <<"a">>)},
        lead \in BOOLEAN, last \in {Hlt, SetSR}}
=============================================================================
