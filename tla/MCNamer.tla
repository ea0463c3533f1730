------------------------------ MODULE MCNamer ------------------------------
(***************************************************************************)
(* Instances of Namer for TLC: interpreters under several paths, command   *)
(* lines with and without the options a config asks for, and a kernel      *)
(* thread, which has none.                                                 *)
(***************************************************************************)
EXTENDS Namer

Proc(comm, argv) == [comm |-> comm, argv |-> argv, username |-> "u"]

MCProcs ==
    {Proc("kswapd", <<>>),
     Proc("py", <<"/usr/bin/py", "-a", "-b">>),
     Proc("py", <<"/opt/py", "-a">>),
     Proc("py", <<"py", "-b">>),
     Proc("sh", <<"/usr/bin/py">>)}

MCBase(e) == CASE e \in {"/usr/bin/py", "/opt/py", "py"} -> "py"
               [] e = "/bin/sh" -> "sh"
               [] OTHER -> e
MCSlashed(e) == e \in {"/usr/bin/py", "/opt/py", "/bin/sh"}

(* "any" is found everywhere and has no group; the groups x and y of "opts"*)
(* capture an option if it is there; "a" is found where the option is, and *)
(* captures it as x; "w" captures in a group without a name; "(" is bad.   *)
MCGroupNames(r) == CASE r = "any"  -> <<"">>
                     [] r = "opts" -> <<"", "x", "y">>
                     [] r = "a"    -> <<"", "x">>
                     [] r = "w"    -> <<"", "">>
                     [] OTHER      -> <<>>

Option(argv, o, text) == IF o \in ToSet(argv) THEN text ELSE ""

MCSubmatch(r, argv) ==
    CASE r = "any"  -> <<"all">>
      [] r = "opts" -> <<"all", Option(argv, "-a", "A"), Option(argv, "-b", "B")>>
      [] r = "a"    -> IF "-a" \in ToSet(argv) THEN <<"all", "a">> ELSE <<>>
      [] r = "w"    -> <<"all", Option(argv, "-b", "B")>>

Tmpl(parts)   == [ok |-> TRUE, parts |-> parts]
NoTmpl        == Tmpl(<<>>)
BadTmpl       == [ok |-> FALSE, parts |-> <<>>]
Var(field)    == [field |-> field, key |-> ""]
Capture(key)  == [field |-> "Matches", key |-> key]

Item(has, comm, exe, cmdline, name) ==
    [has |-> has, comm |-> comm, exe |-> exe, cmdline |-> cmdline, name |-> name]
Comm(names, tmpl)         == Item({"comm"}, names, <<>>, <<>>, tmpl)
Exe(rules, tmpl)          == Item({"exe"}, <<>>, rules, <<>>, tmpl)
Cmd(regexes, tmpl)        == Item({"cmdline"}, <<>>, <<>>, regexes, tmpl)
ExeCmd(rules, rs, tmpl)   == Item({"exe", "cmdline"}, <<>>, rules, rs, tmpl)

XY == Tmpl(<<Var("Comm"), Capture("x"), Capture("y"), Capture("z")>>)

MCItems ==
    {Comm(<<"sh", "kswapd">>, NoTmpl),
     Comm(<<>>, Tmpl(<<Var("ExeFull")>>)),
     Exe(<<"py">>, Tmpl(<<Var("ExeBase"), Var("Username"), Var("Nick"), Var("Comm")>>)),
     Exe(<<"/opt/py", "/bin/sh">>, Tmpl(<<Var("ExeFull")>>)),
     Cmd(<<"opts">>, XY),
     Cmd(<<"a", "opts">>, XY),
     Cmd(<<"opts", "a">>, XY),
     ExeCmd(<<"/usr/bin/py">>, <<"opts", "a">>, XY),
     ExeCmd(<<"/usr/bin/py">>, <<>>, Tmpl(<<Var("Comm"), Capture("x")>>))}

MCBadItems ==
    {Item({}, <<>>, <<>>, <<>>, NoTmpl), Cmd(<<"any", "(">>, NoTmpl),
     Comm(<<"py">>, BadTmpl)}

File(items)         == [path |-> TRUE, items |-> items,
                        namemapping |-> <<>>, procnames |-> {}]
Flags(toks, names)  == [path |-> FALSE, items |-> <<>>,
                        namemapping |-> toks, procnames |-> names]

MCFlags ==
    {Flags(toks, names) :
        toks \in {<<>>, <<"py", "opts">>, <<"py", "w", "py", "any">>,
                  <<"py", "any", "sh", "opts">>, <<"py">>, <<"py", "">>,
                  <<"py", "(">>},
        names \in {{<<"">>}, {<<"py">>, <<"kswapd">>}, {<<"sh">>, <<"py", "A">>}}}

MCSettings ==
    {File(<<>>), [File(<<>>) EXCEPT !.procnames = {<<"py">>}]}
    \cup {File(<<i>>) : i \in MCBadItems}
    \cup {File(<<i, j>>) : i \in MCItems, j \in MCItems \cup MCBadItems}
    \cup MCFlags

(* Two executables of one item that share a base name, in either order.    *)
MCShared ==
    {File(<<Exe(<<"/usr/bin/py", "/opt/py">>, NoTmpl), Comm(<<"sh">>, NoTmpl)>>),
     File(<<Exe(<<"py", "/opt/py", "/bin/sh">>, NoTmpl)>>)}
=============================================================================
