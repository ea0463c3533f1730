---------------------------- MODULE MCCgroupFiles ----------------------------
(***************************************************************************)
(* Instances of CgroupFiles for TLC: the files of a recent kernel, what    *)
(* older kernels and disabled controllers leave out, and lines that do not *)
(* parse.                                                                  *)
(***************************************************************************)
EXTENDS CgroupFiles

Lines(lines)     == [ok |-> TRUE, lines |-> lines]
LineOf(head, pairs) == [head |-> head,
                      fields |-> [i \in DOMAIN pairs |->
                                     [key |-> pairs[i][1], val |-> pairs[i][2]]]]
One(val)         == Lines(<<LineOf("", <<<<"", val>>>>)>>)
Key(head, val)   == LineOf(head, <<<<"", val>>>>)
Empty            == Lines(<<>>)

Avgs(kind, total) == LineOf(kind, <<<<"avg10", 3>>, <<"avg60", 2>>, <<"avg300", 1>>,
                                  <<"total", total>>, <<"new", Junk>>>>)

MCPressure == {"cpu.pressure", "memory.pressure", "io.pressure"}
MCUsual ==
    [f \in File |->
        CASE f \in MCPressure -> Lines(<<Avgs("some", 7), Avgs("full", 5)>>)
          [] f = "memory.events" -> Lines(<<Key("oom", 0), Key("oom_kill", 2)>>)
          [] f = "memory.stat" -> Lines(<<Key("anon", 4), Key("file", 0),
                                          Key("shmem", 6)>>)
          [] f = "cpu.stat" -> Lines(<<Key("usage_usec", 9), Key("user_usec", 5),
                                       Key("system_usec", 4)>>)
          [] f = "pids.max" -> One(3)
          [] f = "pids.events" -> Lines(<<Key("max", 1)>>)
          [] f = "io.stat" -> Lines(<<LineOf("8:0", <<<<"rbytes", 8>>, <<"rios", 1>>>>),
                                      LineOf("8:16", <<<<"wbytes", 0>>>>)>>)
          [] OTHER -> One(2)]

(* A line without a number, with a word for it or with two, among good     *)
(* ones; a key that comes again, with a number and without.                *)
Torn == Lines(<<Key("anon", 1), LineOf("file", <<>>), Key("anon", Junk),
                Key("max", 1), LineOf("max", <<<<"", 2>>, <<"", 3>>>>),
                Key("user_usec", 3), Key("user_usec", 4)>>)

MCUnusual ==
    [f \in File |->
        {Missing, Empty} \cup
        CASE f \in MCPressure ->
                {Lines(<<Avgs("some", 7)>>),
                 Lines(<<Avgs("some", 7), Avgs("full", Junk)>>),
                 Lines(<<Avgs("some", 7), LineOf("full", <<>>)>>),
                 Lines(<<Avgs("most", 7), Avgs("full", 5)>>)}
          [] f \in {"memory.events", "memory.stat", "cpu.stat", "pids.events"} ->
                {Torn}
          [] f = "pids.max" -> {One(Unlimited), One(0), One(Junk)}
          [] f = "io.stat" ->
                {Lines(<<LineOf("8:0", <<>>), LineOf("8:16", <<<<"wbytes", Junk>>,
                                                  <<"", 1>>, <<"dios", 2>>>>),
                         LineOf("8:0", <<<<"rios", 1>>, <<"rios", 2>>>>)>>)}
          [] OTHER -> {One(Junk)}]

MCSettings ==
    {[families |-> Families, windows |-> <<>>, statFields |-> <<>>],
     [families |-> Families, windows |-> <<"total", "avg10", "avg10">>,
      statFields |-> <<"anon", "swapcached">>],
     [families |-> {"psi", "memory"}, windows |-> <<"avg300", "avg1">>,
      statFields |-> <<"anon", "file", "anon">>],
     [families |-> {"pids", "cpu"}, windows |-> <<"avg1">>, statFields |-> <<>>]}
=============================================================================
