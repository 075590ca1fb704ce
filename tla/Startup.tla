------------------------------ MODULE Startup ------------------------------
(***************************************************************************)
(* main() up to the socket manager: the command line, the configuration,   *)
(* the log, and then the program, which asks for options and logs.         *)
(***************************************************************************)
EXTENDS Log

CONSTANTS DefaultFile,    \* GetConfigPath() + _WARHEAD_DISCORD_CONFIG
          Scenarios       \* command lines and what the files contain

\* The file that each "-c" names is among the files, and so is the default.
ASSUME ScenariosAssumption ==
    \A s \in Scenarios :
        /\ s.args \in Seq(STRING) /\ DefaultFile \in DOMAIN s.files
        /\ \A k \in 1 .. Len(s.args) - 1 : s.args[k] = "-c" => s.args[k + 1] \in DOMAIN s.files
        /\ \A f \in DOMAIN s.files : s.files[f] \in [dist : ConfigFile, conf : ConfigFile]

VARIABLES args, main

vars == <<args, main, configVars, logVars>>

Init ==
    /\ \E s \in Scenarios : args = s.args /\ files = s.files
    /\ main = "args"
    /\ ConfigInit /\ LogInit

\* The argument behind a "-c" is a file name, whatever it looks like; the last one counts.
ScanArgument(scan, arg) ==
    IF scan.expected THEN [file |-> arg, expected |-> FALSE]
    ELSE IF arg = "-c" THEN [file |-> scan.file, expected |-> TRUE]
    ELSE scan
CommandLine ==
    LET scan[i \in 0 .. Len(args)] ==
            IF i = 0 THEN [file |-> DefaultFile, expected |-> FALSE]
            ELSE ScanArgument(scan[i - 1], args[i])
    IN scan[Len(args)]

ParseArguments ==
    /\ main = "args"
    /\ main' = IF CommandLine.expected THEN "returned1" ELSE "load"
    /\ UNCHANGED <<args, configVars, logVars>>

Load ==
    /\ main = "load"
    /\ \E ok \in BOOLEAN :
          /\ LoadAppConfigs(CommandLine.file, ok)
          /\ main' = IF ok THEN "log" ELSE "returned1"
    /\ UNCHANGED <<args, logVars>>

InitializeLog ==
    /\ main = "log" /\ main' = "running"
    /\ LoadFromConfig
    /\ UNCHANGED args

\* Inside Initialize() no message is logged: GetOption() logs nothing of options that
\* are there, and LogsDir is asked for while the log has no loggers.
LogLoads ==
    /\ CreateChannelsFromConfig \/ ChannelsRead \/ CreateLoggerFromConfig \/ LoggersRead
    /\ UNCHANGED <<args, main>>

\* The program: it asks for options and logs, and the log may be configured anew.
Call ==
    /\ main = "running" /\ logState = "ready"
    /\ UseConfig \/ LogMessage \/ LoadFromConfig
    /\ UNCHANGED <<args, main>>

Next == ParseArguments \/ Load \/ InitializeLog \/ LogLoads \/ Call

Spec == Init /\ [][Next]_vars

-----------------------------------------------------------------------------
(***************************************************************************)
(* Properties                                                              *)
(***************************************************************************)

\* The program runs only with a .dist file that was read to its end and has options;
\* then ConfigMgr holds what the two files say, no more and no less.  A user's file
\* that breaks off adds nothing ("Add correct keys if file load without errors").
OptionsAreLayered ==
    main \in {"log", "running"} =>
        LET dist == files[filename].dist
            conf == files[filename].conf
            keys(file) == {file.lines[i].key : i \in DOMAIN file.lines}
        IN /\ filename = CommandLine.file /\ Readable(dist)
           /\ DOMAIN configOptions \subseteq keys(dist) \cup keys(conf)
           /\ \A name \in (keys(dist) \cup keys(conf)) \ {NoName} :
                 Says(name) = IF name \in DOMAIN configOptions
                              THEN <<configOptions[name]>> ELSE NoValue
=============================================================================
