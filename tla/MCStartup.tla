----------------------------- MODULE MCStartup -----------------------------
(* Instances of Startup for TLC. *)
EXTENDS Startup

Seqs == INSTANCE SequencesExt

Enable == <<"Discord", "Server.Enable">>
Port == <<"Discord", "Server.Port">>
Console == <<"LogChannel", "Console">>
File == <<"LogChannel", "File">>
Root == <<"Logger", LOGGER_ROOT>>
Server == <<"Logger", <<"server">>>>
Loading == <<"Logger", <<"server", "loading">>>>

AskedOptions == {Enable}
SomeValues == [bool |-> {Numeral(1)}, uint8 |-> {Numeral(2)}, string |-> {Word("yes")}]
SomeFilters == {<<"server", "loading">>, <<"server">>, <<"config">>}
SomeLevels == {1, 3, 6, 8}
FileIsBroken == {"File"}

Good(lines) == [opens |-> TRUE, breaks |-> FALSE, lines |-> lines]
Broken(lines) == [opens |-> TRUE, breaks |-> TRUE, lines |-> lines]
Missing == [opens |-> FALSE, breaks |-> FALSE, lines |-> << >>]

ConsoleText == List(<<Numeral(1), Word("local"), Word("%t")>>)
FileText == List(<<Numeral(2), Word("utc"), Word("%t"), Word("Discord.log")>>)
LoggerText(level, channels) == List(<<Numeral(level), Words(channels)>>)

LogLines == <<Line(Console, ConsoleText), Line(Root, LoggerText(6, <<"Console">>))>>

\* Files about the client's options: duplicates, bad values, unknown options, files
\* that are empty, missing or break off.
OptionLines == {OtherLine, Line(Enable, Word("yes")), Line(Enable, Word("maybe")), Line(Port, Numeral(1000))}
OptionFiles ==
    {[dist |-> d, conf |-> c] :
        d \in {Missing, Broken(<<Line(Enable, Numeral(1))>>), Good(<< >>), Good(<<OtherLine>>)}
              \cup {Good(LogLines \o l) : l \in {<< >>, <<Line(Enable, Numeral(0))>>,
                                              <<Line(Enable, Word("yes")), Line(Enable, Numeral(0))>>}},
        c \in {Missing, Broken(<<Line(Enable, Word("yes"))>>)}
              \cup {Good(l) : l \in Seqs!BoundedSeq(OptionLines, 2)}}

\* Files about the log: levels, channels in either order, ill-formed options.
LogTexts ==
    {[file |-> f, server |-> s, loading |-> l, root |-> r] :
        f \in {FileText, List(<<Numeral(2), Word("utc"), Word("%t")>>), Numeral(2), EmptyText,
               List(<<Numeral(0), Word("utc"), Word("%t")>>), List(<<Numeral(3), Word("utc"), Word("%t")>>),
               List(<<Numeral(2), EmptyText, Word("%t"), Word("Discord.log")>>)},
        s \in {LoggerText(3, <<"Console", "File">>), LoggerText(2, <<"Console">>), LoggerText(9, <<"Console">>)},
        l \in {LoggerText(8, <<"File", "Console">>), LoggerText(0, <<"Console">>), LoggerText(8, <<"None">>),
               Numeral(7), List(<<Word("info"), Word("Console")>>)},
        r \in {LoggerText(6, <<"Console">>), EmptyText}}
LogFiles ==
    {[dist |-> Good(<<Line(Console, ConsoleText), Line(Root, t.root)>>),
      conf |-> Good(<<Line(File, t.file), Line(Server, t.server), Line(Loading, t.loading)>>)] :
        t \in LogTexts}

Default == [dist |-> Good(LogLines \o <<Line(Enable, Numeral(1))>>), conf |-> Missing]
Other == [dist |-> Good(LogLines), conf |-> Missing]
AllFiles(p) == [f \in {"default", "-c", "other"} |-> IF f = "other" THEN p ELSE Default]

\* No argument, a file called "-c", no file name; all files behind two "-c".
SomeScenarios ==
    {[args |-> a, files |-> AllFiles(Other)] : a \in {<< >>, <<"-c", "-c">>, <<"-c", "other", "-c">>}}
    \cup {[args |-> <<"x", "-c", "default", "-c", "other">>, files |-> AllFiles(p)] :
            p \in OptionFiles \cup LogFiles}
=============================================================================
