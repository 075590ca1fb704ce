------------------------------- MODULE Config -------------------------------
(***************************************************************************)
(* The two layers of configuration: ConfigMgr, which reads the .dist file  *)
(* and the user's file over it, and DiscordConfig, the client's cache of   *)
(* options, which asks ConfigMgr once per option and holds texts.          *)
(***************************************************************************)
EXTENDS StringConvert

CONSTANTS Asked,      \* names the program asks DiscordConfig for
          SetValues   \* by type, defaults it gives and values it may set options to

\* Names start with their prefix; loggers and channels may have any name.
NoName == <<"", "">>
Names == ((STRING \ {"", "Logger"}) \X STRING) \cup ({"Logger"} \X (Seq(STRING) \ {<< >>}))

ASSUME AskedAssumption == Asked \subseteq Names
ASSUME ValuesAssumption ==
    \A T \in DOMAIN SetValues : T \in Types /\ SetValues[T] \subseteq ValuesOf(T)

VARIABLES files,          \* the .dist and the user's file of every -c argument
          filename,       \* _filename: the argument in use
          configOptions,  \* ConfigMgr's options, name to text
          usingDistConfig,
          cache,          \* DiscordConfig's options, name to text
          answer,         \* what a GetOption() returned that was the last call
          wasSet          \* option to the type and value of a SetOption() still in force

configVars == <<files, filename, configOptions, usingDistConfig, cache, answer, wasSet>>
cacheVars == <<cache, answer, wasSet>>

-----------------------------------------------------------------------------
(***************************************************************************)
(* ConfigMgr                                                               *)
(***************************************************************************)

IsLoggingSystemOptions(name) == name[1] \in {"Logger", "LogChannel"}

\* Lines with an option have a key and a value, without white space, quotes and what
\* follows a '#'; the others (empty, comments, sections, no '=') are skipped.
Line(key, value) == [key |-> key, value |-> value]
OtherLine == Line(NoName, EmptyText)
ConfigFile == [opens : BOOLEAN, breaks : BOOLEAN,
               lines : Seq([key : Names, value : Text] \cup {OtherLine})]

\* A line of ParseFile(): the first of several lines for an option counts.
ParseLine(fileConfigs, line) ==
    IF line = OtherLine \/ line.key \in DOMAIN fileConfigs
    THEN fileConfigs
    ELSE [k \in DOMAIN fileConfigs \cup {line.key} |->
             IF k = line.key THEN line.value ELSE fileConfigs[k]]

ParseFile(lines) ==
    LET fileConfigs[i \in 0 .. Len(lines)] ==
            IF i = 0 THEN << >> ELSE ParseLine(fileConfigs[i - 1], lines[i])
    IN fileConfigs[Len(lines)]

\* Mutant of AddKeys: an optional file may add options.
AddKeysAll(options, fileConfigs, isOptional) ==
    [k \in DOMAIN options \cup DOMAIN fileConfigs |->
        IF k \in DOMAIN fileConfigs THEN fileConfigs[k] ELSE options[k]]

\* An optional file may override options, not add them, other than those of the log.
\* (No caller reloads: isReload is false.)
AddKeys(options, fileConfigs, isOptional) ==
    LET added == {k \in DOMAIN fileConfigs :
                     ~isOptional \/ k \in DOMAIN options \/ IsLoggingSystemOptions(k)}
    IN [k \in DOMAIN options \cup added |->
           IF k \in added THEN fileConfigs[k] ELSE options[k]]

\* LoadFile(): a file that cannot be opened, read to its end or has no option is
\* refused, by an exception caught here or, if it is optional, silently.
LoadFile(options, file, isOptional) ==
    LET fileConfigs == ParseFile(file.lines)
        ok == file.opens /\ ~file.breaks /\ fileConfigs # << >>
    IN [ok |-> ok, options |-> IF ok THEN AddKeys(options, fileConfigs, isOptional) ELSE options]

LoadInitial(file) == LoadFile(<< >>, file, FALSE)
LoadAdditionalFile(options, file) == LoadFile(options, file, TRUE)

\* LoadAppConfigs(): whether it returns true.
LoadAppConfigs(initFileName, ok) ==
    LET dist == LoadInitial(files[initFileName].dist)
        conf == LoadAdditionalFile(dist.options, files[initFileName].conf)
    IN /\ ok = dist.ok
       /\ filename' = initFileName
       /\ configOptions' = IF dist.ok THEN conf.options ELSE dist.options
       /\ usingDistConfig' = (usingDistConfig \/ (dist.ok /\ ~conf.ok))
       /\ UNCHANGED <<files, cacheVars>>

GetKeysByString(prefix) == {k \in DOMAIN configOptions : k[1] = prefix}

\* ConfigMgr::GetOption<std::string>(), the only instance the client itself calls.
ConfigGetOption(name, def) ==
    IF name \in DOMAIN configOptions THEN configOptions[name] ELSE def

\* ConfigMgr::GetOption<T>(): the default of the call for a missing option and for a
\* text that is no T.
ConfigGetOptionAs(name, T, def) ==
    LET value == StringTo(T, ConfigGetOption(name, ToString(T, def)))
    IN IF value = NoValue THEN def ELSE value[1]

-----------------------------------------------------------------------------
(***************************************************************************)
(* DiscordConfig                                                           *)
(***************************************************************************)
GetDefaultValue(T) == IF T = "string" THEN EmptyText ELSE Numeral(0)
GetDefaultValueString(T, def) ==
    Format(T, IF def = NoValue THEN GetDefaultValue(T) ELSE def[1])

\* An answer, and the default that ConfigMgr was given (none: DiscordConfig was asked).
Answer(name, T, value, def) == [name |-> name, type |-> T, value |-> value, def |-> def]
NoAnswer == Answer(NoName, "", EmptyText, NoValue)

AskConfigMgr(name, T, def) ==
    /\ answer' = Answer(name, T, ConfigGetOptionAs(name, T, def), <<def>>)
    /\ UNCHANGED <<files, filename, configOptions, usingDistConfig, cache, wasSet>>

WithOption(options, name, text) ==
    [k \in DOMAIN options \cup {name} |-> IF k = name THEN text ELSE options[k]]
Forget(f, name) == [k \in DOMAIN f \ {name} |-> f[k]]

\* AddOption(): takes the text from ConfigMgr again, whatever the cache holds.
Added(name, T, def) ==
    WithOption(cache, name, ConfigGetOption(name, GetDefaultValueString(T, def)))

AddOption(name, T, def) ==
    /\ cache' = Added(name, T, def)
    /\ wasSet' = Forget(wasSet, name)
    /\ answer' = NoAnswer
    /\ UNCHANGED <<files, filename, configOptions, usingDistConfig>>

\* Mutant of GetOption: the option is taken from ConfigMgr again.
GetOptionAgain(name, T, def) ==
    LET result == StringTo(T, Added(name, T, def)[name])
    IN /\ cache' = Added(name, T, def)
       /\ answer' = Answer(name, T, IF result = NoValue THEN GetDefaultValue(T) ELSE result[1], NoValue)
       /\ UNCHANGED <<files, filename, configOptions, usingDistConfig, wasSet>>

\* GetOption(): an option that is not cached is added first, a missing one with the
\* default of this call; a text that is no T gives T's own default value.
GetOption(name, T, def) ==
    LET known == IF name \in DOMAIN cache THEN cache ELSE Added(name, T, def)
        result == StringTo(T, known[name])
    IN /\ cache' = known
       /\ answer' = Answer(name, T, IF result = NoValue THEN GetDefaultValue(T) ELSE result[1], NoValue)
       /\ UNCHANGED <<files, filename, configOptions, usingDistConfig, wasSet>>

\* SetOption(): only options that are cached can be set.
SetOption(name, T, value) ==
    /\ IF name \in DOMAIN cache
       THEN /\ cache' = WithOption(cache, name, ToString(T, value))
            /\ wasSet' = WithOption(wasSet, name, [type |-> T, value |-> value])
       ELSE UNCHANGED <<cache, wasSet>>
    /\ answer' = NoAnswer
    /\ UNCHANGED <<files, filename, configOptions, usingDistConfig>>

ConfigInit ==
    /\ filename = "" /\ configOptions = << >> /\ usingDistConfig = FALSE
    /\ cache = << >> /\ wasSet = << >>
    /\ answer = NoAnswer

UseOptions ==
    \E name \in Asked, T \in DOMAIN SetValues :
        \/ \E def \in {NoValue} \cup {<<v>> : v \in SetValues[T]} :
              AddOption(name, T, def) \/ GetOption(name, T, def)
        \/ \E v \in SetValues[T] : SetOption(name, T, v) \/ AskConfigMgr(name, T, v)

-----------------------------------------------------------------------------
(***************************************************************************)
(* Properties                                                              *)
(***************************************************************************)

\* The text a file gives to an option: the value of its first line for it.
Holds(file, name) == \E i \in DOMAIN file.lines : file.lines[i].key = name
Gives(file, name) ==
    file.lines[CHOOSE i \in DOMAIN file.lines :
                  /\ file.lines[i].key = name
                  /\ \A j \in 1 .. i - 1 : file.lines[j].key # name].value

Readable(file) == file.opens /\ ~file.breaks

\* What the two files say of an option: the user's word counts for options of the
\* log and for those the .dist file knows, and only if his file was read to its end.
Says(name) ==
    LET dist == files[filename].dist
        conf == files[filename].conf
    IN IF Readable(conf) /\ Holds(conf, name) /\ (Holds(dist, name) \/ IsLoggingSystemOptions(name))
       THEN <<Gives(conf, name)>>
       ELSE IF Holds(dist, name) THEN <<Gives(dist, name)>> ELSE NoValue

\* An answer of DiscordConfig is what was set last, or what the files say, if that is
\* a text of the type asked for: whatever was asked, added or set before, with other
\* types and other defaults.  One of ConfigMgr is what the files say or its default.
AnswersFollowFiles ==
    answer # NoAnswer =>
        LET said == IF answer.def = NoValue /\ answer.name \in DOMAIN wasSet
                    THEN <<wasSet[answer.name].value>> ELSE Says(answer.name)
            value == IF said = NoValue THEN NoValue ELSE StringTo(answer.type, said[1])
        IN /\ value # NoValue => <<answer.value>> = value
           /\ value = NoValue /\ answer.def # NoValue => <<answer.value>> = answer.def
=============================================================================
