--------------------------- MODULE StartupProofs ---------------------------
(***************************************************************************)
(* Proofs about Startup, for every command line, all files and whatever    *)
(* the program asks, sets and logs: what ConfigMgr holds, what             *)
(* DiscordConfig answers, and where the log writes.                        *)
(***************************************************************************)
EXTENDS Startup, SequenceTheorems, WellFoundedInduction, TLAPS

Loaded == main \in {"log", "running"}

\* The command line and the files, which do not change.
InputOK ==
    /\ args \in Seq(STRING) /\ DefaultFile \in DOMAIN files
    /\ \A k \in 1 .. Len(args) - 1 : args[k] = "-c" => args[k + 1] \in DOMAIN files
    /\ \A f \in DOMAIN files : files[f] \in [dist : ConfigFile, conf : ConfigFile]

\* What ConfigMgr holds, beyond what OptionsAreLayered says.
OptionsOK ==
    /\ main \in {"args", "load", "log", "running", "returned1"}
    /\ Loaded => /\ filename \in DOMAIN files
                 /\ \A name \in DOMAIN configOptions : name \in Names /\ configOptions[name] \in Text

\* The cache of DiscordConfig holds what was set, or what ConfigMgr holds.
CacheOK ==
    /\ ~Loaded => cache = << >> /\ wasSet = << >> /\ answer = NoAnswer
    /\ DOMAIN wasSet \subseteq DOMAIN cache /\ DOMAIN cache \subseteq Names
    /\ \A name \in DOMAIN cache :
          IF name \in DOMAIN wasSet THEN cache[name] = wasSet[name].value
          ELSE name \in DOMAIN configOptions => cache[name] = configOptions[name]
    /\ answer # NoAnswer => answer.name \in Names

\* What ConfigMgr says of a channel and of a logger.
Opens(options) == ChannelIsMade(options) /\ (IsConsole(options) \/ IsFile(options))
NoFileName(options) == ChannelIsMade(options) /\ IsFile(options) /\ Len(TokenizeCommas(options)) < 4
ChannelKeys == GetKeysByString("LogChannel")
LoggerKeys  == GetKeysByString("Logger")
HasChannel(name) == \E key \in ChannelKeys : key[2] = name /\ Opens(configOptions[key])

LevelIn(options)    == StringTo("uint8", GetPositionOptions(options, 1))
ChannelsIn(options) == TokenizeSpaces(GetPositionOptions(options, 2))
Accepted(name, options) ==
    /\ name # <<"system">> /\ Len(TokenizeCommas(options)) >= 2
    /\ LevelIn(options) # NoValue /\ LevelIn(options)[1][2] < LOG_LEVEL_MAX
Complete(name, options) ==
    Accepted(name, options) /\ \A i \in DOMAIN ChannelsIn(options) : HasChannel(ChannelsIn(options)[i])

\* What is made of the options, except for those still to be read.
ChannelsMade(todo) ==
    /\ todo \subseteq ChannelKeys
    /\ \A key \in ChannelKeys \ todo : ~NoFileName(configOptions[key])
    /\ channelStore = {key[2] : key \in {k \in ChannelKeys \ todo : Opens(configOptions[k])}}
LoggersMade(todo) ==
    /\ todo \subseteq LoggerKeys
    /\ DOMAIN loggers = {key[2] : key \in {k \in LoggerKeys \ todo : Complete(k[2], configOptions[k])}}
    /\ \A name \in DOMAIN loggers :
          LET options == configOptions[<<"Logger", name>>]
          IN /\ loggers[name] = [level |-> LevelIn(options)[1][2], channels |-> ChannelsIn(options)]
             /\ LevelIn(options)[1][2] <= highestLogLevel

LogOK ==
    /\ logState # "none" => main = "running"
    /\ logState \in {"none", "channels", "loggers", "ready", "aborted"}
    /\ highestLogLevel \in Int
    /\ logState = "channels" => ChannelsMade(loading) /\ loggers = << >>
    /\ logState = "loggers"  => ChannelsMade({}) /\ LoggersMade(loading)
    /\ logState = "ready"    => LoggersMade({})
    /\ written # NoMessage => logState = "ready" /\ written.filter \in Filters

\* The inductive invariant.
StartupInv ==
    /\ InputOK /\ OptionsOK /\ OptionsAreLayered
    /\ CacheOK /\ AnswersFollowFiles
    /\ LogOK /\ MessagesReachChannels
-----------------------------------------------------------------------------
(***************************************************************************)
(* Recursive functions                                                     *)
(***************************************************************************)

\* The induction used here: a set of numbers that is not empty has a least one.
LEMMA Least ==
    ASSUME NEW T \in SUBSET Nat, T # {}
    PROVE  \E m \in T : \A k \in T : m <= k
<1> DEFINE R == {ss \in Nat \X Nat : ss[1] < ss[2]}
<1>1. IsWellFoundedOn(R, Nat)
  BY ONLY NatLessThanWellFounded DEF OpToRel
<1>2. \A y, z \in Nat : y < z => <<y, z>> \in R
  OBVIOUS
<1> HIDE DEF R
<1>3. PICK x \in T : \A y \in T : ~(<<y, x>> \in R)
  BY <1>1, WFMin, Zenon
<1>4. \A y \in T : ~(y < x)
  BY <1>2, <1>3
<1> QED
  BY <1>4

\* What a set contains from 0 on, each number with the one before it, it contains up to n.
LEMMA Climb ==
    ASSUME NEW n \in Nat, NEW P, 0 \in P, \A i \in 1 .. n : i - 1 \in P => i \in P
    PROVE  \A i \in 0 .. n : i \in P
<1> DEFINE Bad == {i \in 0 .. n : i \notin P}
<1>1. ASSUME Bad # {} PROVE FALSE
  <2>1. Bad \in SUBSET Nat
    OBVIOUS
  <2>2. PICK m \in Bad : \A k \in Bad : m <= k
    <3> HIDE DEF Bad
    <3> QED
      BY <1>1, <2>1, Least
  <2>3. m # 0 /\ m - 1 \in 0 .. n /\ m \in 1 .. n
    BY <2>2
  <2>4. m - 1 \notin Bad
    BY <2>2, <2>3
  <2> QED
    BY <2>2, <2>3, <2>4
<1> QED
  BY <1>1

\* A function that is defined by steps from one number to the next exists.
Steps(n, x0, D, f) == f[0] = x0 /\ \A i \in 1 .. n : f[i] = D[<<i, f[i - 1]>>]

LEMMA StepsExist ==
    ASSUME NEW n \in Nat, NEW X, NEW x0 \in X, NEW D \in [(1 .. n) \X X -> X]
    PROVE  \E f \in [0 .. n -> X] : Steps(n, x0, D, f)
<1> DEFINE P == {m \in 0 .. n : \E f \in [0 .. m -> X] : Steps(m, x0, D, f)}
<1>1. 0 \in P
  <2>1. [k \in 0 .. 0 |-> x0] \in [0 .. 0 -> X] /\ Steps(0, x0, D, [k \in 0 .. 0 |-> x0])
    BY DEF Steps
  <2> QED
    BY <2>1
<1>2. ASSUME NEW m \in 1 .. n, m - 1 \in P PROVE m \in P
  <2>1. PICK f \in [0 .. m - 1 -> X] : Steps(m - 1, x0, D, f)
    BY <1>2
  <2> DEFINE h == [k \in 0 .. m |-> IF k = m THEN D[<<m, f[m - 1]>>] ELSE f[k]]
  <2>2. h \in [0 .. m -> X]
    BY <2>1
  <2>3. Steps(m, x0, D, h)
    <3>1. h[0] = x0
      BY <2>1 DEF Steps
    <3>2. ASSUME NEW i \in 1 .. m PROVE h[i] = D[<<i, h[i - 1]>>]
      <4>1. i - 1 \in 0 .. m /\ i - 1 # m
        OBVIOUS
      <4>2. h[i - 1] = f[i - 1]
        BY <4>1
      <4>3. CASE i = m
        <5>1. h[m] = D[<<m, f[m - 1]>>]
          OBVIOUS
        <5> HIDE DEF h
        <5> QED
          BY <5>1, <4>2, <4>3
      <4>4. CASE i # m
        <5>1. i \in 1 .. m - 1
          BY <4>4
        <5> QED
          BY <5>1, <4>2, <2>1 DEF Steps
      <4> QED
        BY <4>3, <4>4
    <3> HIDE DEF h
    <3> QED
      BY <3>1, <3>2 DEF Steps
  <2> HIDE DEF h
  <2> QED
    BY <2>2, <2>3
<1>3. n \in P
  <2> HIDE DEF P
  <2> QED
    BY <1>1, <1>2, Climb
<1> QED
  BY <1>3

-----------------------------------------------------------------------------
(***************************************************************************)
(* Files                                                                   *)
(***************************************************************************)
FileLines == Seq([key : Names, value : Text] \cup {OtherLine})
Options == UNION {[S -> Text] : S \in SUBSET Names}
IsOption(line) == line # OtherLine

LEMMA NamesAreKeys ==
    /\ NoName \notin Names
    /\ \A k \in Names : k = <<k[1], k[2]>>
    /\ OtherLine.key = NoName
<1>1. NoName \notin Names
  BY DEF NoName, Names
<1>2. ASSUME NEW k \in Names PROVE k = <<k[1], k[2]>>
  <2>1. PICK A, B : k \in A \X B
    BY Zenon DEF Names
  <2> QED
    BY <2>1
<1> QED
  BY <1>1, <1>2 DEF OtherLine, Line

\* A line has an option exactly if its key is a name.
LEMMA LinesWithOptions ==
    ASSUME NEW lines \in FileLines, NEW i \in 1 .. Len(lines)
    PROVE  /\ IsOption(lines[i]) => lines[i].key \in Names /\ lines[i].value \in Text
           /\ ~IsOption(lines[i]) => lines[i].key = NoName /\ lines[i].key \notin Names
<1>1. lines[i] \in [key : Names, value : Text] \cup {OtherLine}
  BY DEF FileLines
<1> QED
  BY <1>1, NamesAreKeys DEF IsOption

\* A step of ParseFile().
LEMMA ParseLineOptions ==
    ASSUME NEW lines \in FileLines, NEW i \in 1 .. Len(lines), NEW o \in Options
    PROVE  ParseLine(o, lines[i]) \in Options
<1>1. PICK S \in SUBSET Names : o \in [S -> Text]
  BY DEF Options
<1>2. CASE ~IsOption(lines[i]) \/ lines[i].key \in DOMAIN o
  BY <1>2 DEF ParseLine, IsOption
<1>3. CASE IsOption(lines[i]) /\ lines[i].key \notin DOMAIN o
  <2> DEFINE key == lines[i].key
             value == lines[i].value
  <2>1. key \in Names /\ value \in Text
    BY <1>3, LinesWithOptions
  <2>2. ParseLine(o, lines[i]) = [k \in S \cup {key} |-> IF k = key THEN value ELSE o[k]]
    BY <1>1, <1>3 DEF ParseLine, IsOption
  <2> HIDE DEF key, value
  <2>3. ParseLine(o, lines[i]) \in [S \cup {key} -> Text]
    BY <1>1, <2>1, <2>2
  <2> QED
    BY <2>1, <2>3 DEF Options
<1> QED
  BY <1>2, <1>3

Parsing(lines, n, f) ==
    f = [i \in 0 .. n |-> IF i = 0 THEN << >> ELSE ParseLine(f[i - 1], lines[i])]

LEMMA ParsingExists ==
    ASSUME NEW lines \in FileLines
    PROVE  \E f : Parsing(lines, Len(lines), f)
<1> DEFINE n == Len(lines)
           D == [p \in (1 .. n) \X Options |-> ParseLine(p[2], lines[p[1]])]
<1>1. n \in Nat
  BY DEF FileLines
<1>2. << >> \in Options
  <2>1. << >> \in [{} -> Text]
    OBVIOUS
  <2> QED
    BY <2>1 DEF Options
<1>3. D \in [(1 .. n) \X Options -> Options]
  BY ParseLineOptions
<1> HIDE DEF n, D
<1>4. PICK f \in [0 .. n -> Options] : Steps(n, << >>, D, f)
  BY <1>1, <1>2, <1>3, StepsExist
<1>5. ASSUME NEW i \in 1 .. n PROVE f[i] = ParseLine(f[i - 1], lines[i])
  <2>1. f[i - 1] \in Options
    BY <1>1
  <2>2. f[i] = D[<<i, f[i - 1]>>]
    BY <1>4 DEF Steps
  <2> QED
    BY <2>1, <2>2 DEF D
<1>6. f = [i \in 0 .. n |-> IF i = 0 THEN << >> ELSE ParseLine(f[i - 1], lines[i])]
  BY <1>1, <1>4, <1>5 DEF Steps
<1> QED
  BY <1>6 DEF Parsing, n

\* The options of the first n lines: those of the first line for each of them.
OptionsOf(lines, n) == {lines[i].key : i \in {j \in 1 .. n : IsOption(lines[j])}}
FirstFor(lines, i) == IsOption(lines[i]) /\ \A j \in 1 .. i - 1 : lines[j].key # lines[i].key
Parsed(lines, n, o) ==
    /\ o \in Options
    /\ DOMAIN o = OptionsOf(lines, n)
    /\ \A i \in 1 .. n : FirstFor(lines, i) => o[lines[i].key] = lines[i].value

LEMMA ParseLineParses ==
    ASSUME NEW lines \in FileLines, NEW n \in 1 .. Len(lines), NEW o, Parsed(lines, n - 1, o)
    PROVE  Parsed(lines, n, ParseLine(o, lines[n]))
<1> DEFINE key == lines[n].key
           p == ParseLine(o, lines[n])
<1>1. n \in Nat /\ n - 1 \in Nat
  BY DEF FileLines
<1>2. p \in Options
  BY ParseLineOptions DEF Parsed
<1>3. CASE ~IsOption(lines[n])
  <2>1. p = o
    BY <1>3 DEF ParseLine, IsOption
  <2>2. OptionsOf(lines, n) = OptionsOf(lines, n - 1)
    BY <1>1, <1>3 DEF OptionsOf
  <2>3. ~FirstFor(lines, n)
    BY <1>3 DEF FirstFor
  <2>4. \A i \in 1 .. n : i = n \/ i \in 1 .. n - 1
    BY <1>1
  <2> QED
    BY <1>2, <2>1, <2>2, <2>3, <2>4 DEF Parsed
<1>4. CASE IsOption(lines[n]) /\ key \in DOMAIN o
  <2>1. p = o
    BY <1>4 DEF ParseLine, IsOption
  <2>2. PICK j \in 1 .. n - 1 : lines[j].key = key
    BY <1>4 DEF Parsed, OptionsOf
  <2>3. OptionsOf(lines, n) = OptionsOf(lines, n - 1)
    BY <1>1, <1>4 DEF OptionsOf, Parsed
  <2>4. ~FirstFor(lines, n)
    BY <1>1, <2>2 DEF FirstFor
  <2>5. \A i \in 1 .. n : i = n \/ i \in 1 .. n - 1
    BY <1>1
  <2> QED
    BY <1>2, <2>1, <2>3, <2>4, <2>5 DEF Parsed
<1>5. CASE IsOption(lines[n]) /\ key \notin DOMAIN o
  <2>1. p = [k \in DOMAIN o \cup {key} |-> IF k = key THEN lines[n].value ELSE o[k]]
    BY <1>5 DEF ParseLine, IsOption
  <2>2. OptionsOf(lines, n) = OptionsOf(lines, n - 1) \cup {key}
    BY <1>1, <1>5 DEF OptionsOf
  <2>3. ASSUME NEW i \in 1 .. n, FirstFor(lines, i) PROVE p[lines[i].key] = lines[i].value
    <3>1. CASE i = n
      BY <2>1, <3>1
    <3>2. CASE i # n
      <4>1. i \in 1 .. n - 1
        BY <1>1, <3>2
      <4>2. lines[i].key \in DOMAIN o
        BY <2>3, <4>1 DEF FirstFor, Parsed, OptionsOf
      <4>3. o[lines[i].key] = lines[i].value
        BY <2>3, <4>1 DEF Parsed
      <4> QED
        BY <1>5, <2>1, <4>2, <4>3
    <3> QED
      BY <3>1, <3>2
  <2>4. DOMAIN p = OptionsOf(lines, n)
    BY <2>1, <2>2 DEF Parsed
  <2>5. Parsed(lines, n, p)
    <3> HIDE DEF p
    <3> QED
      BY <1>2, <2>3, <2>4 DEF Parsed
  <2> QED
    BY <2>5
<1> QED
  BY <1>3, <1>4, <1>5

\* ParseFile() takes the first line for each option, and nothing else.
LEMMA ParseFileParses ==
    ASSUME NEW lines \in FileLines
    PROVE  Parsed(lines, Len(lines), ParseFile(lines))
<1> DEFINE n == Len(lines)
<1>1. n \in Nat
  BY DEF FileLines
<1>2. PICK f : Parsing(lines, n, f) /\ ParseFile(lines) = f[n]
  <2> DEFINE f == CHOOSE e : Parsing(lines, n, e)
  <2>1. Parsing(lines, n, f)
    BY ParsingExists
  <2>2. ParseFile(lines) = f[n]
    BY DEF ParseFile, Parsing
  <2> QED
    BY <2>1, <2>2
<1>3. \A i \in 0 .. n : f[i] = IF i = 0 THEN << >> ELSE ParseLine(f[i - 1], lines[i])
  BY <1>2, Zenon DEF Parsing
<1> DEFINE P == {i \in 0 .. n : Parsed(lines, i, f[i])}
<1>4. 0 \in P
  <2>1. f[0] = << >>
    BY <1>1, <1>3
  <2>2. << >> \in Options
    <3>1. << >> \in [{} -> Text]
      OBVIOUS
    <3> QED
      BY <3>1 DEF Options
  <2>3. OptionsOf(lines, 0) = {}
    BY DEF OptionsOf
  <2>4. DOMAIN << >> = {}
    OBVIOUS
  <2>5. Parsed(lines, 0, f[0])
    BY <2>1, <2>2, <2>3, <2>4 DEF Parsed
  <2> QED
    BY <1>1, <2>5
<1>5. ASSUME NEW i \in 1 .. n, i - 1 \in P PROVE i \in P
  <2>1. Parsed(lines, i - 1, f[i - 1])
    BY <1>5
  <2>2. f[i] = ParseLine(f[i - 1], lines[i])
    BY <1>1, <1>3
  <2>3. Parsed(lines, i, f[i])
    BY <2>1, <2>2, ParseLineParses
  <2> QED
    BY <1>1, <2>3
<1>6. n \in P
  <2> HIDE DEF P, n
  <2>1. \A i \in 0 .. n : i \in P
    BY <1>1, <1>4, <1>5, Climb
  <2> QED
    BY <1>1, <2>1
<1> QED
  BY <1>2, <1>6

-----------------------------------------------------------------------------
(***************************************************************************)
(* What the two files say                                                  *)
(***************************************************************************)

\* What ParseFile() takes of a file is what the file gives.
LEMMA FileGives ==
    ASSUME NEW file \in ConfigFile
    PROVE  LET o == ParseFile(file.lines)
           IN /\ o \in Options
              /\ DOMAIN o \subseteq {file.lines[i].key : i \in DOMAIN file.lines}
              /\ \A name \in Names : /\ name \in DOMAIN o <=> Holds(file, name)
                                     /\ name \in DOMAIN o => o[name] = Gives(file, name)
<1> DEFINE lines == file.lines
           n == Len(lines)
           o == ParseFile(lines)
<1>1. lines \in FileLines
  BY DEF ConfigFile, FileLines
<1>2. n \in Nat /\ DOMAIN lines = 1 .. n
  BY <1>1 DEF FileLines
<1>3. Parsed(lines, n, o)
  BY <1>1, ParseFileParses
<1> HIDE DEF n, o
<1>4. \A i \in 1 .. n : lines[i].key \in Names <=> IsOption(lines[i])
  BY <1>1, LinesWithOptions DEF n
<1>5. o \in Options /\ DOMAIN o \subseteq {lines[i].key : i \in DOMAIN lines}
  BY <1>2, <1>3 DEF Parsed, OptionsOf
<1>6. ASSUME NEW name \in Names PROVE name \in DOMAIN o <=> Holds(file, name)
  BY <1>2, <1>3, <1>4 DEF Parsed, OptionsOf, Holds
<1>7. ASSUME NEW name \in Names, name \in DOMAIN o PROVE o[name] = Gives(file, name)
  <2> DEFINE T == {i \in 1 .. n : lines[i].key = name}
             First(i) == lines[i].key = name /\ \A j \in 1 .. i - 1 : lines[j].key # name
  <2>1. T # {} /\ T \in SUBSET Nat
    BY <1>2, <1>3, <1>7 DEF Parsed, OptionsOf
  <2>2. PICK m \in T : \A k \in T : m <= k
    <3> HIDE DEF T
    <3> QED
      BY <2>1, Least
  <2>3. m \in DOMAIN lines /\ First(m)
    BY <1>2, <2>2
  <2> DEFINE c == CHOOSE i \in DOMAIN lines : First(i)
  <2>4. c \in DOMAIN lines /\ First(c)
    <3> HIDE DEF First
    <3> QED
      BY <2>3
  <2>5. Gives(file, name) = lines[c].value
    BY DEF Gives
  <2> HIDE DEF c
  <2>6. FirstFor(lines, c)
    BY <1>2, <1>4, <2>4 DEF FirstFor
  <2> QED
    BY <1>2, <1>3, <2>4, <2>5, <2>6 DEF Parsed
<1> QED
  BY <1>5, <1>6, <1>7 DEF o

\* A file that is read says something of every option it holds.
LEMMA EmptyHasNoOption ==
    ASSUME NEW o \in Options
    PROVE  o = << >> <=> DOMAIN o = {}
<1>1. PICK S \in SUBSET Names : o \in [S -> Text]
  BY DEF Options
<1>2. DOMAIN o = {} => o = << >>
  <2> SUFFICES ASSUME DOMAIN o = {} PROVE o = << >>
    OBVIOUS
  <2>1. S = {} /\ o = [x \in {} |-> o[x]]
    BY <1>1
  <2> QED
    BY <2>1
<1> QED
  BY <1>2

\* The two layers: what they say, and what ConfigMgr makes of them.
TwoSay(dist, conf, name) ==
    IF Readable(conf) /\ Holds(conf, name) /\ (Holds(dist, name) \/ IsLoggingSystemOptions(name))
    THEN <<Gives(conf, name)>>
    ELSE IF Holds(dist, name) THEN <<Gives(dist, name)>> ELSE NoValue
Layers(dist, conf) ==
    LET initial == LoadInitial(dist) IN LoadAdditionalFile(initial.options, conf).options

LEMMA LayersSay ==
    ASSUME NEW dist \in ConfigFile, NEW conf \in ConfigFile, LoadInitial(dist).ok
    PROVE  /\ Readable(dist) /\ Layers(dist, conf) \in Options
           /\ DOMAIN Layers(dist, conf) \subseteq {dist.lines[i].key : i \in DOMAIN dist.lines}
                                       \cup {conf.lines[i].key : i \in DOMAIN conf.lines}
           /\ \A name \in Names :
                 TwoSay(dist, conf, name) = IF name \in DOMAIN Layers(dist, conf) THEN <<Layers(dist, conf)[name]>> ELSE NoValue
<1> DEFINE d == ParseFile(dist.lines)
           c == ParseFile(conf.lines)
           added == {k \in DOMAIN c : k \in DOMAIN d \/ IsLoggingSystemOptions(k)}
           both == [k \in DOMAIN d \cup added |-> IF k \in added THEN c[k] ELSE d[k]]
           L == Layers(dist, conf)
<1>1. /\ d \in Options /\ DOMAIN d \subseteq {dist.lines[i].key : i \in DOMAIN dist.lines}
      /\ \A name \in Names : /\ name \in DOMAIN d <=> Holds(dist, name)
                             /\ name \in DOMAIN d => d[name] = Gives(dist, name)
  BY FileGives
<1>2. /\ c \in Options /\ DOMAIN c \subseteq {conf.lines[i].key : i \in DOMAIN conf.lines}
      /\ \A name \in Names : /\ name \in DOMAIN c <=> Holds(conf, name)
                             /\ name \in DOMAIN c => c[name] = Gives(conf, name)
  BY FileGives
<1>3. Readable(dist) /\ LoadInitial(dist).options = AddKeys(<< >>, d, FALSE)
  BY DEF LoadInitial, LoadFile, Readable
<1> HIDE DEF d, c
<1>4. AddKeys(<< >>, d, FALSE) = d
  <2>1. PICK S \in SUBSET Names : d \in [S -> Text]
    BY <1>1 DEF Options
  <2>2. d = [k \in DOMAIN d |-> d[k]]
    BY <2>1
  <2>3. AddKeys(<< >>, d, FALSE) = [k \in DOMAIN d |-> d[k]]
    BY DEF AddKeys
  <2> QED
    BY <2>2, <2>3
<1>5. AddKeys(d, c, TRUE) = both
  BY DEF AddKeys
<1>6. L = IF Readable(conf) /\ c # << >> THEN both ELSE d
  BY <1>3, <1>4, <1>5 DEF Layers, LoadAdditionalFile, LoadFile, Readable, c
<1>7. both \in Options
  <2>1. PICK S \in SUBSET Names : d \in [S -> Text]
    BY <1>1 DEF Options
  <2>2. PICK Q \in SUBSET Names : c \in [Q -> Text]
    BY <1>2 DEF Options
  <2>3. both \in [S \cup added -> Text]
    BY <2>1, <2>2
  <2> QED
    BY <2>2, <2>3 DEF Options
<1>8. CASE Readable(conf) /\ c # << >>
  <2>1. L = both
    BY <1>6, <1>8
  <2>2. DOMAIN both = DOMAIN d \cup added
    OBVIOUS
  <2>3. ASSUME NEW name \in DOMAIN both
        PROVE  both[name] = IF name \in added THEN c[name] ELSE d[name]
    BY <2>3
  <2> HIDE DEF both
  <2>4. ASSUME NEW name \in Names
        PROVE  TwoSay(dist, conf, name) = IF name \in DOMAIN both THEN <<both[name]>> ELSE NoValue
    BY <1>1, <1>2, <1>8, <2>2, <2>3 DEF TwoSay
  <2>5. DOMAIN both \subseteq {dist.lines[i].key : i \in DOMAIN dist.lines}
                            \cup {conf.lines[i].key : i \in DOMAIN conf.lines}
    BY <1>1, <1>2, <2>2
  <2> HIDE DEF L
  <2> QED
    BY <1>3, <1>7, <2>1, <2>4, <2>5 DEF L
<1>9. CASE ~Readable(conf) \/ c = << >>
  <2>1. L = d
    BY <1>6, <1>9
  <2>2. \A name \in Names : Readable(conf) => ~Holds(conf, name)
    BY <1>2, <1>9, EmptyHasNoOption
  <2> HIDE DEF L
  <2> QED
    BY <1>1, <1>3, <2>1, <2>2 DEF L, TwoSay
<1> QED
  BY <1>8, <1>9

-----------------------------------------------------------------------------
(***************************************************************************)
(* The command line                                                        *)
(***************************************************************************)
Scans == [file : STRING \cup {DefaultFile}, expected : BOOLEAN]
Scanning(n, f) ==
    f = [i \in 0 .. n |-> IF i = 0 THEN [file |-> DefaultFile, expected |-> FALSE]
                          ELSE ScanArgument(f[i - 1], args[i])]

LEMMA ScanningExists ==
    ASSUME args \in Seq(STRING)
    PROVE  \E f : Scanning(Len(args), f)
<1> DEFINE n == Len(args)
           x0 == [file |-> DefaultFile, expected |-> FALSE]
           D == [p \in (1 .. n) \X Scans |-> ScanArgument(p[2], args[p[1]])]
<1>1. n \in Nat
  OBVIOUS
<1>2. x0 \in Scans
  BY DEF Scans
<1>3. D \in [(1 .. n) \X Scans -> Scans]
  <2>1. ASSUME NEW i \in 1 .. n, NEW s \in Scans PROVE ScanArgument(s, args[i]) \in Scans
    BY DEF ScanArgument, Scans
  <2> QED
    BY <2>1
<1> HIDE DEF n, D, x0
<1>4. PICK f \in [0 .. n -> Scans] : Steps(n, x0, D, f)
  BY <1>1, <1>2, <1>3, StepsExist
<1>5. ASSUME NEW i \in 1 .. n PROVE f[i] = ScanArgument(f[i - 1], args[i])
  <2>1. f[i - 1] \in Scans
    BY <1>1
  <2>2. f[i] = D[<<i, f[i - 1]>>]
    BY <1>4 DEF Steps
  <2> QED
    BY <2>1, <2>2 DEF D
<1>6. f = [i \in 0 .. n |-> IF i = 0 THEN x0 ELSE ScanArgument(f[i - 1], args[i])]
  BY <1>1, <1>4, <1>5 DEF Steps
<1> QED
  BY <1>6 DEF Scanning, n, x0

\* A file that the command line names is there, if no name is missing at its end.
LEMMA CommandLineNamesFile ==
    ASSUME InputOK
    PROVE  CommandLine.file \in DOMAIN files
<1> DEFINE n == Len(args)
<1>1. n \in Nat /\ args \in Seq(STRING)
  BY DEF InputOK
<1>2. PICK f : Scanning(n, f) /\ CommandLine = f[n]
  <2> DEFINE f == CHOOSE e : Scanning(n, e)
  <2>1. Scanning(n, f)
    BY <1>1, ScanningExists
  <2>2. CommandLine = f[n]
    BY DEF CommandLine, Scanning
  <2> QED
    BY <2>1, <2>2
<1>3. \A i \in 0 .. n : f[i] = IF i = 0 THEN [file |-> DefaultFile, expected |-> FALSE]
                               ELSE ScanArgument(f[i - 1], args[i])
  BY <1>2, Zenon DEF Scanning
<1> DEFINE Good(i) == /\ f[i].file \in DOMAIN files
                      /\ f[i].expected \in BOOLEAN
                      /\ f[i].expected => i > 0 /\ args[i] = "-c"
           P == {i \in 0 .. n : Good(i)}
<1>4. 0 \in P
  <2>1. 0 \in 0 .. n
    BY <1>1
  <2>2. f[0] = [file |-> DefaultFile, expected |-> FALSE]
    BY <1>3, <2>1
  <2>3. Good(0)
    BY <2>2 DEF InputOK
  <2> QED
    BY <2>1, <2>3
<1>5. ASSUME NEW i \in 1 .. n, i - 1 \in P PROVE i \in P
  <2>1. f[i] = ScanArgument(f[i - 1], args[i])
    BY <1>1, <1>3
  <2>2. f[i - 1].expected => args[i] \in DOMAIN files
    <3> SUFFICES ASSUME f[i - 1].expected PROVE args[i] \in DOMAIN files
      OBVIOUS
    <3>1. i - 1 > 0 /\ args[i - 1] = "-c"
      BY <1>5
    <3>2. i - 1 \in 1 .. n - 1 /\ (i - 1) + 1 = i
      BY <1>1, <3>1
    <3>3. \A k \in 1 .. n - 1 : args[k] = "-c" => args[k + 1] \in DOMAIN files
      BY DEF InputOK
    <3> QED
      BY <3>1, <3>2, <3>3
  <2> DEFINE old == f[i - 1]
             new == f[i]
  <2>3. new = ScanArgument(old, args[i])
    BY <2>1
  <2>4. old.file \in DOMAIN files /\ old.expected \in BOOLEAN /\ (old.expected => args[i] \in DOMAIN files)
    BY <1>5, <2>2
  <2>5. i > 0
    BY <1>1
  <2>6. /\ new.file \in DOMAIN files /\ new.expected \in BOOLEAN
        /\ new.expected => args[i] = "-c"
    <3> HIDE DEF new, old
    <3> QED
      BY <2>3, <2>4 DEF ScanArgument
  <2>7. Good(i)
    BY <2>5, <2>6
  <2> QED
    BY <1>1, <2>7
<1>6. n \in P
  <2> HIDE DEF P, n
  <2>1. \A i \in 0 .. n : i \in P
    BY <1>1, <1>4, <1>5, Climb
  <2> QED
    BY <1>1, <2>1
<1> QED
  BY <1>2, <1>6

-----------------------------------------------------------------------------
(***************************************************************************)
(* What does not change                                                    *)
(***************************************************************************)
LEMMA SameCommandLine ==
    ASSUME args' = args
    PROVE  CommandLine' = CommandLine
BY Zenon DEF CommandLine

LEMMA SameFilesSaySame ==
    ASSUME files' = files, filename' = filename
    PROVE  \A name : Says(name)' = Says(name)
BY Zenon DEF Says

LEMMA SameFilesDescribeSame ==
    ASSUME files' = files, filename' = filename, NEW name
    PROVE  /\ SaidLevel(name)' = SaidLevel(name)
           /\ SaidChannels(name)' = SaidChannels(name)
           /\ LoggerIsSaid(name)' = LoggerIsSaid(name)
<1>1. \A n : SaidLevel(n)' = SaidLevel(n)
  BY SameFilesSaySame, Zenon DEF SaidLevel
<1>2. \A n : SaidChannels(n)' = SaidChannels(n)
  BY SameFilesSaySame, Zenon DEF SaidChannels
<1>3. ASSUME NEW n PROVE ChannelIsSaid(n)' = ChannelIsSaid(n)
  <2> DEFINE s == Says(<<"LogChannel", n>>)
  <2>1. s' = s
    BY SameFilesSaySame
  <2> HIDE DEF s
  <2> QED
    BY <2>1 DEF ChannelIsSaid, s
<1>4. LoggerIsSaid(name)' = LoggerIsSaid(name)
  BY SameFilesSaySame, <1>1, <1>2, <1>3, Zenon DEF LoggerIsSaid
<1> QED
  BY <1>1, <1>2, <1>4

LEMMA SameFilesExpectSame ==
    ASSUME files' = files, filename' = filename, NEW filter, NEW level, NEW text
    PROVE  Expected(filter, level, text)' = Expected(filter, level, text)
BY SameFilesDescribeSame, Zenon DEF Expected

-----------------------------------------------------------------------------
(***************************************************************************)
(* ConfigMgr                                                               *)
(***************************************************************************)

\* The command line and the files are as given.
LEMMA InputStep ==
    ASSUME InputOK, [Next]_vars
    PROVE  InputOK' /\ args' = args /\ files' = files
<1>1. args' = args /\ files' = files
  <2>1. CASE UNCHANGED vars
    BY <2>1 DEF vars, configVars
  <2>2. CASE ParseArguments
    BY <2>2 DEF ParseArguments, configVars
  <2>3. CASE Load
    BY <2>3 DEF Load, LoadAppConfigs
  <2>4. CASE InitializeLog
    BY <2>4 DEF InitializeLog, LoadFromConfig
  <2>5. CASE LogLoads
    BY <2>5 DEF LogLoads, CreateChannelsFromConfig, ChannelsRead, CreateLoggerFromConfig, LoggersRead, configVars
  <2>6. CASE Call
    BY <2>6 DEF Call, UseConfig, UseOptions, AddOption, GetOption, SetOption, AskConfigMgr, LogMessage, LoadFromConfig
  <2> QED
    BY <2>1, <2>2, <2>3, <2>4, <2>5, <2>6 DEF Next
<1> QED
  BY <1>1, Zenon DEF InputOK

\* Only Load() changes what ConfigMgr holds.
LEMMA ConfigMgrStays ==
    ASSUME [Next]_vars, ~Load
    PROVE  filename' = filename /\ configOptions' = configOptions
<1>1. CASE UNCHANGED vars
  BY <1>1 DEF vars, configVars
<1>2. CASE ParseArguments
  BY <1>2 DEF ParseArguments, configVars
<1>3. CASE InitializeLog
  BY <1>3 DEF InitializeLog, LoadFromConfig
<1>4. CASE LogLoads
  BY <1>4 DEF LogLoads, CreateChannelsFromConfig, ChannelsRead, CreateLoggerFromConfig, LoggersRead, configVars
<1>5. CASE Call
  BY <1>5 DEF Call, UseConfig, UseOptions, AddOption, GetOption, SetOption, AskConfigMgr, LogMessage, LoadFromConfig
<1> QED
  BY <1>1, <1>2, <1>3, <1>4, <1>5 DEF Next

\* Of main(), only the log's start makes a loaded program a running one.
LEMMA MainStays ==
    ASSUME OptionsOK, [Next]_vars, ~Load
    PROVE  main' \in {"args", "load", "log", "running", "returned1"} /\ Loaded' = Loaded
<1>1. CASE UNCHANGED vars
  BY <1>1 DEF vars, OptionsOK, Loaded
<1>2. CASE ParseArguments
  BY <1>2 DEF ParseArguments, Loaded
<1>3. CASE InitializeLog
  BY <1>3 DEF InitializeLog, Loaded
<1>4. CASE LogLoads
  BY <1>4 DEF LogLoads, OptionsOK, Loaded
<1>5. CASE Call
  BY <1>5 DEF Call, OptionsOK, Loaded
<1> QED
  BY <1>1, <1>2, <1>3, <1>4, <1>5 DEF Next

\* Load() puts the layers of the two files into ConfigMgr.
LEMMA LoadLayers ==
    ASSUME InputOK, Load
    PROVE  /\ filename' = CommandLine.file /\ filename' \in DOMAIN files
           /\ main' = (IF LoadInitial(files[filename'].dist).ok THEN "log" ELSE "returned1")
           /\ LoadInitial(files[filename'].dist).ok =>
                  configOptions' = Layers(files[filename'].dist, files[filename'].conf)
<1>1. CommandLine.file \in DOMAIN files
  BY CommandLineNamesFile
<1>2. PICK ok \in BOOLEAN : LoadAppConfigs(CommandLine.file, ok) /\ main' = IF ok THEN "log" ELSE "returned1"
  BY DEF Load
<1> QED
  BY <1>1, <1>2 DEF LoadAppConfigs, Layers

LEMMA OptionsStep ==
    ASSUME InputOK, OptionsOK, OptionsAreLayered, [Next]_vars
    PROVE  OptionsOK' /\ OptionsAreLayered'
<1>1. args' = args /\ files' = files /\ CommandLine' = CommandLine
  BY InputStep, SameCommandLine
<1>2. CASE ~Load
  <2>1. /\ filename' = filename /\ configOptions' = configOptions /\ Loaded' = Loaded
        /\ main' \in {"args", "load", "log", "running", "returned1"}
    BY <1>2, ConfigMgrStays, MainStays
  <2>2. \A name : Says(name)' = Says(name)
    BY <1>1, <2>1, SameFilesSaySame
  <2>3. OptionsOK'
    BY <1>1, <2>1 DEF OptionsOK
  <2>4. OptionsAreLayered'
    BY <1>1, <2>1, <2>2 DEF OptionsAreLayered, Loaded
  <2> QED
    BY <2>3, <2>4
<1>3. CASE Load
  <2> DEFINE dist == files[filename'].dist
             conf == files[filename'].conf
             L == Layers(dist, conf)
  <2>1. /\ filename' = CommandLine.file /\ filename' \in DOMAIN files
        /\ main' = (IF LoadInitial(dist).ok THEN "log" ELSE "returned1")
        /\ LoadInitial(dist).ok => configOptions' = L
    BY <1>3, LoadLayers
  <2>2. dist \in ConfigFile /\ conf \in ConfigFile
    BY <2>1 DEF InputOK
  <2>3. CASE LoadInitial(dist).ok
    <3>1. /\ Readable(dist) /\ L \in Options
          /\ DOMAIN L \subseteq {dist.lines[i].key : i \in DOMAIN dist.lines}
                               \cup {conf.lines[i].key : i \in DOMAIN conf.lines}
          /\ \A name \in Names : TwoSay(dist, conf, name) = IF name \in DOMAIN L THEN <<L[name]>> ELSE NoValue
      BY <2>2, <2>3, LayersSay
    <3>2. \A name : Says(name)' = TwoSay(dist, conf, name)
      BY <1>1, Zenon DEF Says, TwoSay
    <3>3. \A i \in DOMAIN dist.lines : dist.lines[i].key \in Names \cup {NoName}
      BY <2>2, NamesAreKeys DEF ConfigFile
    <3>4. \A i \in DOMAIN conf.lines : conf.lines[i].key \in Names \cup {NoName}
      BY <2>2, NamesAreKeys DEF ConfigFile
    <3> HIDE DEF dist, conf, L
    <3>5. configOptions' = L
      BY <2>1, <2>3
    <3>6. OptionsOK'
      BY <1>1, <2>1, <2>3, <3>1, <3>5 DEF OptionsOK, Loaded, Options
    <3>7. OptionsAreLayered'
      <4> DEFINE keys(file) == {file.lines[i].key : i \in DOMAIN file.lines}
      <4>1. ASSUME NEW name \in (keys(dist) \cup keys(conf)) \ {NoName}
            PROVE  Says(name)' = IF name \in DOMAIN configOptions' THEN <<configOptions'[name]>> ELSE NoValue
        BY <3>1, <3>2, <3>3, <3>4, <3>5
      <4>2. /\ filename' = CommandLine'.file /\ Readable(dist)
            /\ DOMAIN configOptions' \subseteq keys(dist) \cup keys(conf)
        BY <1>1, <2>1, <3>1, <3>5
      <4>3. files[filename]'.dist = dist /\ files[filename]'.conf = conf
        BY <1>1 DEF dist, conf
      <4> QED
        BY <4>1, <4>2, <4>3 DEF OptionsAreLayered
    <3> QED
      BY <3>6, <3>7
  <2>4. CASE ~LoadInitial(dist).ok
    BY <2>1, <2>4 DEF OptionsOK, OptionsAreLayered, Loaded
  <2> QED
    BY <2>3, <2>4
<1> QED
  BY <1>2, <1>3

\* ConfigMgr holds what the two files say, of every name.
LEMMA HoldsWhatFilesSay ==
    ASSUME InputOK, OptionsOK, OptionsAreLayered, Loaded, NEW name, name # NoName
    PROVE  Says(name) = IF name \in DOMAIN configOptions THEN <<configOptions[name]>> ELSE NoValue
<1> DEFINE dist == files[filename].dist
           conf == files[filename].conf
           keys(file) == {file.lines[i].key : i \in DOMAIN file.lines}
<1>1. /\ DOMAIN configOptions \subseteq keys(dist) \cup keys(conf)
      /\ \A n \in (keys(dist) \cup keys(conf)) \ {NoName} :
            Says(n) = IF n \in DOMAIN configOptions THEN <<configOptions[n]>> ELSE NoValue
  BY DEF OptionsAreLayered, Loaded
<1>2. CASE name \in keys(dist) \cup keys(conf)
  BY <1>1, <1>2
<1>3. CASE name \notin keys(dist) \cup keys(conf)
  <2>1. ~Holds(dist, name) /\ ~Holds(conf, name)
    BY <1>3 DEF Holds
  <2>2. Says(name) = NoValue
    BY <2>1 DEF Says
  <2> QED
    BY <1>1, <1>3, <2>2
<1> QED
  BY <1>2, <1>3

-----------------------------------------------------------------------------
(***************************************************************************)
(* DiscordConfig                                                           *)
(***************************************************************************)

\* A conversion gives one value or none.
LEMMA ConversionsGiveOne ==
    ASSUME NEW T, NEW text
    PROVE  StringTo(T, text) = NoValue \/ StringTo(T, text) = <<StringTo(T, text)[1]>>
<1>1. BoolFromString(text) \in {NoValue, <<Numeral(0)>>, <<Numeral(1)>>}
  BY DEF BoolFromString
<1>2. IntFromString(T, text) \in {NoValue, <<text>>}
  BY DEF IntFromString
<1>3. StringTo(T, text) \in {BoolFromString(text), <<text>>, IntFromString(T, text)}
  BY DEF StringTo
<1> HIDE DEF Numeral
<1> QED
  BY <1>1, <1>2, <1>3 DEF NoValue

\* The text of a value converts back into it.
LEMMA ValuesConvertBack ==
    ASSUME NEW T \in Types, NEW v \in ValuesOf(T)
    PROVE  StringTo(T, ToString(T, v)) = <<v>>
<1>1. CASE T = "bool"
  <2>1. v \in {Numeral(0), Numeral(1)}
    BY <1>1 DEF ValuesOf
  <2>2. BoolFromString(Numeral(1)) = <<Numeral(1)>> /\ BoolFromString(Numeral(0)) = <<Numeral(0)>>
    BY DEF BoolFromString, Numeral, Word
  <2> QED
    BY <1>1, <2>1, <2>2 DEF StringTo, ToString
<1>2. CASE T = "string"
  BY <1>2 DEF StringTo, ToString
<1>3. CASE T \notin {"bool", "string"}
  <2>1. PICK n \in RangeOf(T) : v = Numeral(n)
    BY <1>3 DEF ValuesOf
  <2>2. v[1] = "int" /\ v[2] \in RangeOf(T)
    BY <2>1 DEF Numeral
  <2> QED
    BY <1>3, <2>2 DEF StringTo, ToString, IntFromString
<1> QED
  BY <1>1, <1>2, <1>3

\* Outside of UseOptions, nothing is asked and nothing set.
LEMMA CacheStays ==
    ASSUME [Next]_vars, ~(Call /\ UseConfig)
    PROVE  cache' = cache /\ wasSet' = wasSet /\ (answer' = answer \/ answer' = NoAnswer)
<1>1. CASE UNCHANGED vars
  BY <1>1 DEF vars, configVars
<1>2. CASE ParseArguments
  BY <1>2 DEF ParseArguments, configVars
<1>3. CASE Load
  BY <1>3 DEF Load, LoadAppConfigs, cacheVars
<1>4. CASE InitializeLog
  BY <1>4 DEF InitializeLog, LoadFromConfig
<1>5. CASE LogLoads
  BY <1>5 DEF LogLoads, CreateChannelsFromConfig, ChannelsRead, CreateLoggerFromConfig, LoggersRead, configVars
<1>6. CASE Call
  BY <1>6 DEF Call, LogMessage, LoadFromConfig
<1> QED
  BY <1>1, <1>2, <1>3, <1>4, <1>5, <1>6 DEF Next

\* What the cache holds, and what it would hold of an option once added.
Cached(name, text) ==
    name \notin DOMAIN wasSet /\ name \in DOMAIN configOptions => text = configOptions[name]

LEMMA AddedIsConfigured ==
    ASSUME NEW name, NEW T, NEW def
    PROVE  /\ DOMAIN Added(name, T, def) = DOMAIN cache \cup {name}
           /\ \A n \in DOMAIN cache : n # name => Added(name, T, def)[n] = cache[n]
           /\ name \in DOMAIN configOptions => Added(name, T, def)[name] = configOptions[name]
BY DEF Added, WithOption, ConfigGetOption

LEMMA AddOptionStep ==
    ASSUME CacheOK, Loaded, Loaded', NEW name \in Names, NEW T, NEW def, AddOption(name, T, def)
    PROVE  CacheOK' /\ AnswersFollowFiles'
<1>1. /\ cache' = Added(name, T, def) /\ wasSet' = [k \in DOMAIN wasSet \ {name} |-> wasSet[k]]
      /\ answer' = NoAnswer /\ configOptions' = configOptions
  BY DEF AddOption, Forget
<1>2. DOMAIN wasSet' = DOMAIN wasSet \ {name} /\ \A k \in DOMAIN wasSet' : wasSet'[k] = wasSet[k]
  BY <1>1
<1>3. CacheOK'
  <2> DEFINE a == Added(name, T, def)
  <2>1. /\ DOMAIN a = DOMAIN cache \cup {name}
        /\ \A n \in DOMAIN cache : n # name => a[n] = cache[n]
        /\ name \in DOMAIN configOptions => a[name] = configOptions[name]
    BY AddedIsConfigured
  <2> HIDE DEF a
  <2>2. cache' = a
    BY <1>1 DEF a
  <2> QED
    BY <1>1, <1>2, <2>1, <2>2 DEF CacheOK
<1> QED
  BY <1>1, <1>3 DEF AnswersFollowFiles

LEMMA SetOptionStep ==
    ASSUME CacheOK, Loaded, Loaded', NEW name \in Names, NEW T, NEW v, SetOption(name, T, v)
    PROVE  CacheOK' /\ AnswersFollowFiles'
<1>1. answer' = NoAnswer /\ configOptions' = configOptions
  BY DEF SetOption
<1>2. CASE name \in DOMAIN cache
  <2>1. /\ cache' = [k \in DOMAIN cache \cup {name} |-> IF k = name THEN v ELSE cache[k]]
        /\ wasSet' = [k \in DOMAIN wasSet \cup {name} |->
                         IF k = name THEN [type |-> T, value |-> v] ELSE wasSet[k]]
    BY <1>2 DEF SetOption, WithOption, ToString
  <2>2. CacheOK'
    BY <1>1, <1>2, <2>1 DEF CacheOK
  <2> QED
    BY <1>1, <2>2 DEF AnswersFollowFiles
<1>3. CASE name \notin DOMAIN cache
  BY <1>1, <1>3 DEF SetOption, CacheOK, AnswersFollowFiles
<1> QED
  BY <1>2, <1>3

LEMMA GetOptionStep ==
    ASSUME InputOK, OptionsOK, OptionsAreLayered, CacheOK, Loaded, Loaded',
           NEW name \in Names, NEW T, NEW def, GetOption(name, T, def)
    PROVE  CacheOK' /\ AnswersFollowFiles'
<1> DEFINE known == IF name \in DOMAIN cache THEN cache ELSE Added(name, T, def)
           result == StringTo(T, known[name])
           value == IF result = NoValue THEN GetDefaultValue(T) ELSE result[1]
<1>1. /\ cache' = known /\ answer' = Answer(name, T, value, NoValue)
      /\ wasSet' = wasSet /\ configOptions' = configOptions /\ files' = files /\ filename' = filename
  BY DEF GetOption
<1>2. /\ name \in DOMAIN wasSet => known[name] = wasSet[name].value
      /\ name \notin DOMAIN wasSet /\ name \in DOMAIN configOptions => known[name] = configOptions[name]
  <2>1. name \in DOMAIN configOptions => Added(name, T, def)[name] = configOptions[name]
    BY AddedIsConfigured
  <2> QED
    BY <2>1 DEF CacheOK
<1>3. CacheOK'
  <2> DEFINE a == Added(name, T, def)
  <2>3. DOMAIN a = DOMAIN cache \cup {name} /\ \A n \in DOMAIN cache : n # name => a[n] = cache[n]
    BY AddedIsConfigured
  <2>1. DOMAIN known = DOMAIN cache \cup {name} /\ \A n \in DOMAIN cache : known[n] = cache[n]
    <3>1. known = IF name \in DOMAIN cache THEN cache ELSE a
      OBVIOUS
    <3> HIDE DEF known, a
    <3> QED
      BY <2>3, <3>1
  <2>2. answer'.name = name
    BY <1>1 DEF Answer
  <2> HIDE DEF known
  <2> QED
    BY <1>1, <1>2, <2>1, <2>2 DEF CacheOK
<1>4. Says(name)' = IF name \in DOMAIN configOptions THEN <<configOptions[name]>> ELSE NoValue
  BY <1>1, SameFilesSaySame, HoldsWhatFilesSay, NamesAreKeys
<1>5. answer'.name = name /\ answer'.type = T /\ answer'.value = value /\ answer'.def = NoValue
  BY <1>1 DEF Answer
<1>6. result # NoValue => <<value>> = result
  BY ConversionsGiveOne
<1> HIDE DEF known, value
<1> DEFINE said == IF name \in DOMAIN wasSet THEN <<wasSet[name].value>> ELSE Says(name)'
<1>7. said = NoValue \/ said[1] = known[name]
  BY <1>2, <1>4
<1>8. said # NoValue => StringTo(T, said[1]) = result
  BY <1>7
<1>9. AnswersFollowFiles'
  <2> HIDE DEF said, result
  <2>1. (IF answer.def = NoValue /\ answer.name \in DOMAIN wasSet
         THEN <<wasSet[answer.name].value>> ELSE Says(answer.name))' = said
    BY <1>1, <1>5 DEF said
  <2> QED
    BY <1>5, <1>6, <1>8, <2>1 DEF AnswersFollowFiles
<1> QED
  BY <1>3, <1>9

LEMMA AskConfigMgrStep ==
    ASSUME InputOK, OptionsOK, OptionsAreLayered, CacheOK, Loaded, Loaded',
           NEW name \in Names, NEW T \in Types, NEW v \in ValuesOf(T), AskConfigMgr(name, T, v)
    PROVE  CacheOK' /\ AnswersFollowFiles'
<1> DEFINE value == ConfigGetOptionAs(name, T, v)
<1>1. /\ cache' = cache /\ answer' = Answer(name, T, value, <<v>>)
      /\ wasSet' = wasSet /\ configOptions' = configOptions /\ files' = files /\ filename' = filename
  BY DEF AskConfigMgr
<1>2. CacheOK'
  <2>1. answer'.name = name
    BY <1>1 DEF Answer
  <2> QED
    BY <1>1, <2>1 DEF CacheOK
<1>3. Says(name)' = IF name \in DOMAIN configOptions THEN <<configOptions[name]>> ELSE NoValue
  BY <1>1, SameFilesSaySame, HoldsWhatFilesSay, NamesAreKeys
<1>4. answer'.name = name /\ answer'.type = T /\ answer'.value = value /\ answer'.def = <<v>>
  BY <1>1 DEF Answer
<1> DEFINE text == ConfigGetOption(name, ToString(T, v))
           result == StringTo(T, text)
<1>5. /\ result # NoValue => <<value>> = result
      /\ result = NoValue => value = v
  BY ConversionsGiveOne DEF ConfigGetOptionAs
<1>6. name \in DOMAIN configOptions => text = configOptions[name]
  BY DEF ConfigGetOption
<1>7. name \notin DOMAIN configOptions => result = <<v>>
  BY ValuesConvertBack DEF ConfigGetOption
<1>8. AnswersFollowFiles'
  <2> HIDE DEF text, value
  <2> DEFINE said == Says(name)'
  <2>1. said # NoValue => said[1] = text
    BY <1>3, <1>6
  <2>2. said = NoValue => name \notin DOMAIN configOptions
    BY <1>3 DEF NoValue
  <2> HIDE DEF said
  <2>3. said # NoValue => StringTo(T, said[1]) = result
    BY <2>1
  <2> HIDE DEF result
  <2>4. (IF answer.def = NoValue /\ answer.name \in DOMAIN wasSet
         THEN <<wasSet[answer.name].value>> ELSE Says(answer.name))' = said
    BY <1>4 DEF said, NoValue
  <2>5. said = NoValue => <<value>> = <<v>>
    BY <1>5, <1>7, <2>2
  <2> QED
    BY <1>4, <1>5, <2>3, <2>4, <2>5 DEF AnswersFollowFiles
<1> QED
  BY <1>2, <1>8

LEMMA AnswersStep ==
    ASSUME InputOK, OptionsOK, OptionsAreLayered, CacheOK, AnswersFollowFiles, [Next]_vars
    PROVE  CacheOK' /\ AnswersFollowFiles'
<1>1. CASE Call /\ UseConfig
  <2>1. Loaded /\ Loaded'
    BY <1>1 DEF Call, Loaded
  <2>2. PICK name \in Asked, T \in DOMAIN SetValues :
            \/ \E def \in {NoValue} \cup {<<v>> : v \in SetValues[T]} :
                  AddOption(name, T, def) \/ GetOption(name, T, def)
            \/ \E v \in SetValues[T] : SetOption(name, T, v) \/ AskConfigMgr(name, T, v)
    BY <1>1 DEF UseConfig, UseOptions
  <2>3. name \in Names /\ T \in Types /\ SetValues[T] \subseteq ValuesOf(T)
    BY AskedAssumption, ValuesAssumption
  <2>4. CASE \E def \in {NoValue} \cup {<<v>> : v \in SetValues[T]} :
                  AddOption(name, T, def) \/ GetOption(name, T, def)
    BY <2>1, <2>3, <2>4, AddOptionStep, GetOptionStep
  <2>5. CASE \E v \in SetValues[T] : SetOption(name, T, v) \/ AskConfigMgr(name, T, v)
    BY <2>1, <2>3, <2>5, SetOptionStep, AskConfigMgrStep
  <2> QED
    BY <2>2, <2>4, <2>5
<1>2. CASE ~(Call /\ UseConfig)
  <2>1. cache' = cache /\ wasSet' = wasSet /\ (answer' = answer \/ answer' = NoAnswer)
    BY <1>2, CacheStays
  <2>2. CASE Load
    <3>1. answer = NoAnswer /\ cache = << >> /\ wasSet = << >>
      BY <2>2 DEF Load, CacheOK, Loaded
    <3>2. answer' = NoAnswer
      BY <2>1, <3>1
    <3> QED
      BY <2>1, <3>1, <3>2 DEF CacheOK, AnswersFollowFiles
  <2>3. CASE ~Load
    <3>1. /\ filename' = filename /\ configOptions' = configOptions /\ Loaded' = Loaded /\ files' = files
      BY <2>3, ConfigMgrStays, MainStays, InputStep
    <3>2. CacheOK'
      BY <2>1, <3>1 DEF CacheOK
    <3>3. \A name : Says(name)' = Says(name)
      BY <3>1, SameFilesSaySame
    <3>4. CASE answer' = NoAnswer
      BY <3>2, <3>4 DEF AnswersFollowFiles
    <3>5. CASE answer' = answer
      <4>1. AnswersFollowFiles'
        BY <2>1, <3>1, <3>3, <3>5 DEF AnswersFollowFiles
      <4> QED
        BY <3>2, <4>1
    <3> QED
      BY <2>1, <3>4, <3>5
  <2> QED
    BY <2>2, <2>3
<1> QED
  BY <1>1, <1>2

-----------------------------------------------------------------------------
(***************************************************************************)
(* Channels and loggers                                                    *)
(***************************************************************************)
LEMMA SameOptionsMakeSame ==
    ASSUME configOptions' = configOptions
    PROVE  /\ ChannelKeys' = ChannelKeys /\ LoggerKeys' = LoggerKeys
           /\ \A name : HasChannel(name)' = HasChannel(name)
           /\ \A name, options : Complete(name, options)' = Complete(name, options)
<1>1. ChannelKeys' = ChannelKeys /\ LoggerKeys' = LoggerKeys
  BY DEF ChannelKeys, LoggerKeys, GetKeysByString
<1>2. \A name : HasChannel(name)' = HasChannel(name)
  BY <1>1, Zenon DEF HasChannel
<1>3. \A name, options : Complete(name, options)' = Complete(name, options)
  BY <1>2, Zenon DEF Complete
<1> QED
  BY <1>1, <1>2, <1>3

\* The names of channels and loggers are what their keys have behind the prefix.
LEMMA KeysHaveNames ==
    ASSUME OptionsOK, Loaded
    PROVE  /\ \A key \in ChannelKeys : key = <<"LogChannel", key[2]>> /\ configOptions[key] \in Text
           /\ \A key \in LoggerKeys : key = <<"Logger", key[2]>> /\ configOptions[key] \in Text
BY NamesAreKeys DEF OptionsOK, ChannelKeys, LoggerKeys, GetKeysByString

\* A level that is given is a number.
LEMMA LevelsAreNumbers ==
    ASSUME NEW options
    PROVE  LevelIn(options) = NoValue \/ LevelIn(options)[1][2] \in Int
BY DEF LevelIn, StringTo, IntFromString, RangeOf, NoValue

\* An option that is no list has one token.
LEMMA EmptyHasOneToken == Len(TokenizeCommas(EmptyText)) = 1
BY DEF TokenizeCommas, EmptyText, Word

LEMMA CreateChannelsStep ==
    ASSUME OptionsOK, Loaded, LogOK, CreateChannelsFromConfig, main' = main
    PROVE  LogOK'
<1>1. PICK key \in loading :
          LET options == ConfigGetOption(key, EmptyText)
              made == ChannelIsMade(options)
              noFileName == made /\ IsFile(options) /\ Len(TokenizeCommas(options)) < 4
          IN /\ loading' = loading \ {key}
             /\ logState' = IF noFileName THEN "aborted" ELSE logState
             /\ channelStore' = IF made /\ ~noFileName /\ (IsConsole(options) \/ IsFile(options))
                                THEN AddFormattingChannel(key[2]) ELSE channelStore
  BY DEF CreateChannelsFromConfig
<1>2. /\ logState = "channels" /\ ChannelsMade(loading) /\ loggers = << >>
      /\ highestLogLevel' = highestLogLevel /\ loggers' = loggers /\ written' = written
      /\ configOptions' = configOptions /\ main = "running" /\ written = NoMessage
      /\ highestLogLevel \in Int
  BY DEF CreateChannelsFromConfig, LogOK, configVars
<1>3. ChannelKeys' = ChannelKeys
  BY <1>2, SameOptionsMakeSame
<1> DEFINE options == configOptions[key]
<1>4. key \in ChannelKeys /\ options = ConfigGetOption(key, EmptyText)
  BY <1>2 DEF ChannelsMade, ChannelKeys, GetKeysByString, ConfigGetOption
<1>5. CASE NoFileName(options)
  <2>1. logState' = "aborted"
    BY <1>1, <1>4, <1>5 DEF NoFileName
  <2> QED
    BY <1>2, <2>1 DEF LogOK
<1>6. CASE ~NoFileName(options)
  <2>1. /\ logState' = "channels" /\ loading' = loading \ {key}
        /\ channelStore' = IF Opens(options) THEN channelStore \cup {key[2]} ELSE channelStore
    BY <1>1, <1>2, <1>4, <1>6 DEF NoFileName, Opens, AddFormattingChannel
  <2>2. ChannelsMade(loading)'
    <3>1. ChannelKeys \ (loading \ {key}) = (ChannelKeys \ loading) \cup {key}
      BY <1>2, <1>4 DEF ChannelsMade
    <3>2. \A k \in (ChannelKeys \ loading) \cup {key} : ~NoFileName(configOptions[k])
      BY <1>2, <1>6 DEF ChannelsMade
    <3>3. channelStore' = {k[2] : k \in {q \in (ChannelKeys \ loading) \cup {key} : Opens(configOptions[q])}}
      <4>1. channelStore = {k[2] : k \in {q \in ChannelKeys \ loading : Opens(configOptions[q])}}
        BY <1>2 DEF ChannelsMade
      <4> QED
        BY <2>1, <4>1
    <3>4. loading' \subseteq ChannelKeys
      BY <1>2, <2>1 DEF ChannelsMade
    <3> QED
      BY <1>2, <1>3, <2>1, <3>1, <3>2, <3>3, <3>4 DEF ChannelsMade
  <2> QED
    BY <1>2, <2>1, <2>2 DEF LogOK
<1> QED
  BY <1>5, <1>6

LEMMA ChannelsReadStep ==
    ASSUME LogOK, ChannelsRead, main' = main
    PROVE  LogOK'
<1>1. /\ logState = "channels" /\ loading = {} /\ ChannelsMade({}) /\ loggers = << >>
      /\ logState' = "loggers" /\ loading' = LoggerKeys
      /\ highestLogLevel' = highestLogLevel /\ channelStore' = channelStore /\ loggers' = loggers
      /\ written' = written /\ configOptions' = configOptions
      /\ main = "running" /\ written = NoMessage /\ highestLogLevel \in Int
  BY DEF ChannelsRead, LogOK, configVars, LoggerKeys
<1>2. ChannelKeys' = ChannelKeys /\ LoggerKeys' = LoggerKeys
  BY <1>1, SameOptionsMakeSame
<1>3. ChannelsMade({})'
  BY <1>1, <1>2 DEF ChannelsMade
<1>4. LoggersMade(loading)'
  BY <1>1, <1>2 DEF LoggersMade
<1> QED
  BY <1>1, <1>3, <1>4 DEF LogOK

LEMMA CreateLoggerStep ==
    ASSUME OptionsOK, Loaded, LogOK, CreateLoggerFromConfig, main' = main
    PROVE  LogOK'
<1>1. PICK key \in loading :
          LET options == ConfigGetOption(key, EmptyText)
              parsed == StringTo("uint8", GetPositionOptions(options, 1))
              level == IF parsed = NoValue THEN LOG_LEVEL_MAX ELSE parsed[1][2]
              accepted == /\ key[2] # <<"system">> /\ options # EmptyText
                          /\ Len(TokenizeCommas(options)) >= 2 /\ level < LOG_LEVEL_MAX
              names == TokenizeSpaces(GetPositionOptions(options, 2))
              found == \A i \in DOMAIN names : GetFormattingChannel(names[i])
          IN /\ loading' = loading \ {key}
             /\ highestLogLevel' =
                    IF accepted /\ level > highestLogLevel THEN level ELSE highestLogLevel
             /\ loggers' = IF accepted /\ found
                           THEN WithOption(loggers, key[2], [level |-> level, channels |-> names])
                           ELSE loggers
  BY DEF CreateLoggerFromConfig
<1>2. /\ logState = "loggers" /\ ChannelsMade({}) /\ LoggersMade(loading)
      /\ logState' = logState /\ channelStore' = channelStore /\ written' = written
      /\ configOptions' = configOptions /\ main = "running" /\ written = NoMessage
      /\ highestLogLevel \in Int
  BY DEF CreateLoggerFromConfig, LogOK, configVars
<1>3. /\ ChannelKeys' = ChannelKeys /\ LoggerKeys' = LoggerKeys
      /\ \A name, o : Complete(name, o)' = Complete(name, o)
  BY <1>2, SameOptionsMakeSame
<1> DEFINE options == configOptions[key]
           level == LevelIn(options)[1][2]
           names == ChannelsIn(options)
<1>4. key \in LoggerKeys /\ options = ConfigGetOption(key, EmptyText) /\ key = <<"Logger", key[2]>>
  BY <1>2, KeysHaveNames DEF LoggersMade, LoggerKeys, GetKeysByString, ConfigGetOption
<1>5. \A name : GetFormattingChannel(name) <=> HasChannel(name)
  BY <1>2 DEF GetFormattingChannel, HasChannel, ChannelsMade
<1>6. Accepted(key[2], options) =>
         /\ LevelIn(options) # NoValue /\ level \in Int /\ options # EmptyText
  <2>1. LevelIn(options) = NoValue \/ level \in Int
    BY LevelsAreNumbers
  <2>2. Accepted(key[2], options) => options # EmptyText
    <3>1. SUFFICES ASSUME Accepted(key[2], options), options = EmptyText PROVE FALSE
      OBVIOUS
    <3>2. Len(TokenizeCommas(EmptyText)) >= 2
      BY <3>1 DEF Accepted
    <3> QED
      BY <3>2, EmptyHasOneToken
  <2>3. Accepted(key[2], options) => LevelIn(options) # NoValue
    BY DEF Accepted
  <2> QED
    BY <2>1, <2>2, <2>3
<1>7. /\ loading' = loading \ {key}
      /\ highestLogLevel' = IF Accepted(key[2], options) /\ level > highestLogLevel THEN level ELSE highestLogLevel
      /\ loggers' = IF Complete(key[2], options)
                    THEN WithOption(loggers, key[2], [level |-> level, channels |-> names]) ELSE loggers
  <2>1. CASE LevelIn(options) = NoValue
    <3>1. ~Accepted(key[2], options) /\ ~Complete(key[2], options)
      BY <2>1 DEF Accepted, Complete
    <3> QED
      BY <1>1, <1>4, <2>1, <3>1 DEF LevelIn, LOG_LEVEL_MAX
  <2>2. CASE LevelIn(options) # NoValue
    BY <1>1, <1>4, <1>5, <1>6, <2>2 DEF LevelIn, ChannelsIn, Accepted, Complete
  <2> QED
    BY <2>1, <2>2
<1> HIDE DEF level, names, options
<1>8. highestLogLevel' \in Int /\ highestLogLevel' >= highestLogLevel
      /\ (Accepted(key[2], options) => level <= highestLogLevel')
  BY <1>2, <1>6, <1>7
<1>9. ChannelsMade({})'
  BY <1>2, <1>3 DEF ChannelsMade
<1>10. LoggersMade(loading)'
  <2>1. LoggerKeys \ (loading \ {key}) = (LoggerKeys \ loading) \cup {key}
    BY <1>2, <1>4 DEF LoggersMade
  <2>2. DOMAIN loggers = {k[2] : k \in {q \in LoggerKeys \ loading : Complete(q[2], configOptions[q])}}
    BY <1>2 DEF LoggersMade
  <2>3. ASSUME NEW name \in DOMAIN loggers
        PROVE  /\ name # key[2]
               /\ loggers[name] = [level |-> LevelIn(configOptions[<<"Logger", name>>])[1][2],
                                   channels |-> ChannelsIn(configOptions[<<"Logger", name>>])]
               /\ LevelIn(configOptions[<<"Logger", name>>])[1][2] <= highestLogLevel
               /\ LevelIn(configOptions[<<"Logger", name>>])[1][2] \in Int
    <3>1. PICK q \in LoggerKeys \ loading : q[2] = name /\ Complete(q[2], configOptions[q])
      BY <2>2
    <3>2. q = <<"Logger", name>> /\ q # key
      BY <3>1, KeysHaveNames
    <3>3. name # key[2]
      BY <1>4, <3>2
    <3>4. LevelIn(configOptions[q])[1][2] \in Int
      <4>1. LevelIn(configOptions[q]) # NoValue
        BY <3>1 DEF Complete, Accepted
      <4>2. LevelIn(configOptions[q]) = NoValue \/ LevelIn(configOptions[q])[1][2] \in Int
        BY LevelsAreNumbers
      <4> QED
        BY <4>1, <4>2
    <3> QED
      BY <1>2, <3>2, <3>3, <3>4 DEF LoggersMade
  <2>4. DOMAIN loggers' = {k[2] : k \in {q \in (LoggerKeys \ loading) \cup {key} : Complete(q[2], configOptions[q])}}
    <3>1. CASE Complete(key[2], options)
      <4>1. DOMAIN loggers' = DOMAIN loggers \cup {key[2]}
        BY <1>7, <3>1 DEF WithOption
      <4> QED
        BY <2>2, <3>1, <4>1 DEF options
    <3>2. CASE ~Complete(key[2], options)
      <4>1. DOMAIN loggers' = DOMAIN loggers
        BY <1>7, <3>2
      <4> QED
        BY <2>2, <3>2, <4>1 DEF options
    <3> QED
      BY <3>1, <3>2
  <2>5. ASSUME NEW name \in DOMAIN loggers'
        PROVE  /\ loggers'[name] = [level |-> LevelIn(configOptions[<<"Logger", name>>])[1][2],
                                    channels |-> ChannelsIn(configOptions[<<"Logger", name>>])]
               /\ LevelIn(configOptions[<<"Logger", name>>])[1][2] <= highestLogLevel'
    <3>1. CASE name \in DOMAIN loggers
      <4>1. loggers'[name] = loggers[name]
        BY <1>7, <2>3, <3>1 DEF WithOption
      <4> QED
        BY <1>2, <1>8, <2>3, <3>1, <4>1
    <3>2. CASE name \notin DOMAIN loggers
      <4>1. Complete(key[2], options) /\ name = key[2]
        BY <1>7, <2>5, <3>2 DEF WithOption
      <4>2. loggers'[name] = [level |-> level, channels |-> names]
        BY <1>7, <4>1 DEF WithOption
      <4>3. options = configOptions[<<"Logger", name>>]
        BY <1>4, <4>1 DEF options
      <4> QED
        BY <1>8, <4>1, <4>2, <4>3 DEF level, names, Complete
    <3> QED
      BY <3>1, <3>2
  <2>6. loading' \subseteq LoggerKeys
    BY <1>2, <1>7 DEF LoggersMade
  <2> QED
    BY <1>2, <1>3, <1>7, <2>1, <2>4, <2>5, <2>6 DEF LoggersMade
<1> QED
  BY <1>2, <1>8, <1>9, <1>10 DEF LogOK

LEMMA LogLoadsStep ==
    ASSUME OptionsOK, Loaded, LogOK, LogLoads
    PROVE  LogOK' /\ written' = NoMessage
<1>1. main' = main
  BY DEF LogLoads
<1>2. written = NoMessage /\ written' = NoMessage
  BY DEF LogLoads, CreateChannelsFromConfig, ChannelsRead, CreateLoggerFromConfig, LoggersRead, LogOK
<1>3. ASSUME LoggersRead PROVE LogOK'
  <2>1. /\ logState = "loggers" /\ LoggersMade({}) /\ logState' = "ready" /\ main = "running"
        /\ highestLogLevel' = highestLogLevel /\ loggers' = loggers /\ configOptions' = configOptions
        /\ highestLogLevel \in Int
    BY <1>3 DEF LoggersRead, LogOK, configVars
  <2>2. LoggerKeys' = LoggerKeys /\ \A name, o : Complete(name, o)' = Complete(name, o)
    BY <2>1, SameOptionsMakeSame
  <2>3. LoggersMade({})'
    BY <2>1, <2>2 DEF LoggersMade
  <2> QED
    BY <1>1, <1>2, <2>1, <2>3 DEF LogOK
<1> QED
  BY <1>1, <1>2, <1>3, CreateChannelsStep, ChannelsReadStep, CreateLoggerStep DEF LogLoads

LEMMA LoadFromConfigStep ==
    ASSUME LoadFromConfig, main' = "running"
    PROVE  LogOK' /\ written' = NoMessage
<1>1. /\ highestLogLevel' = LOG_LEVEL_FATAL /\ loggers' = << >> /\ channelStore' = {}
      /\ loading' = ChannelKeys /\ logState' = "channels" /\ written' = NoMessage
      /\ configOptions' = configOptions
  BY DEF LoadFromConfig, ChannelKeys
<1>2. ChannelKeys' = ChannelKeys
  BY <1>1, SameOptionsMakeSame
<1>3. ChannelsMade(loading)'
  BY <1>1, <1>2 DEF ChannelsMade
<1> QED
  BY <1>1, <1>3 DEF LogOK, LOG_LEVEL_FATAL

-----------------------------------------------------------------------------
(***************************************************************************)
(* Messages                                                                *)
(***************************************************************************)

\* Loggers are what the files describe completely.
LEMMA LoggersAreSaid ==
    ASSUME InputOK, OptionsOK, OptionsAreLayered, Loaded, LoggersMade({}), NEW name
    PROVE  /\ name \in DOMAIN loggers <=> LoggerIsSaid(name)
           /\ name \in DOMAIN loggers =>
                 /\ loggers[name] = [level |-> SaidLevel(name)[1][2], channels |-> SaidChannels(name)]
                 /\ SaidLevel(name)[1][2] <= highestLogLevel
                 /\ SaidLevel(name)[1][2] \in Int
<1> DEFINE key == <<"Logger", name>>
           options == configOptions[key]
<1>1. Says(key) = IF key \in DOMAIN configOptions THEN <<options>> ELSE NoValue
  BY HoldsWhatFilesSay DEF NoName
<1>2. ASSUME NEW n PROVE ChannelIsSaid(n) <=> HasChannel(n)
  <2> DEFINE k == <<"LogChannel", n>>
  <2>1. Says(k) = IF k \in DOMAIN configOptions THEN <<configOptions[k]>> ELSE NoValue
    BY HoldsWhatFilesSay DEF NoName
  <2>2. HasChannel(n) <=> k \in DOMAIN configOptions /\ Opens(configOptions[k])
    <3>1. k \in ChannelKeys <=> k \in DOMAIN configOptions
      BY DEF ChannelKeys, GetKeysByString
    <3>2. k[2] = n /\ \A q \in ChannelKeys : q[2] = n => q = k
      BY KeysHaveNames
    <3> HIDE DEF k
    <3> QED
      BY <3>1, <3>2 DEF HasChannel
  <2> HIDE DEF k
  <2> QED
    BY <2>1, <2>2 DEF ChannelIsSaid, Opens, NoValue, k
<1>3. name \in DOMAIN loggers <=> key \in DOMAIN configOptions /\ Complete(name, options)
  <2>1. key \in LoggerKeys <=> key \in DOMAIN configOptions
    BY DEF LoggerKeys, GetKeysByString
  <2>2. key[2] = name /\ \A q \in LoggerKeys : q[2] = name => q = key
    BY KeysHaveNames
  <2>3. DOMAIN loggers = {q[2] : q \in {k \in LoggerKeys : Complete(k[2], configOptions[k])}}
    BY DEF LoggersMade
  <2> HIDE DEF key
  <2> QED
    BY <2>1, <2>2, <2>3
<1> HIDE DEF key
<1>4. key \in DOMAIN configOptions =>
         SaidLevel(name) = LevelIn(options) /\ SaidChannels(name) = ChannelsIn(options)
  BY <1>1 DEF SaidLevel, SaidChannels, LevelIn, ChannelsIn, key
<1>5. LoggerIsSaid(name) <=> key \in DOMAIN configOptions /\ Complete(name, options)
  <2>1. CASE key \in DOMAIN configOptions
    <3>1. Says(key) = <<options>>
      BY <1>1, <2>1
    <3> HIDE DEF options
    <3> QED
      BY <1>2, <1>4, <2>1, <3>1 DEF LoggerIsSaid, Complete, Accepted, NoValue, key
  <2>2. CASE key \notin DOMAIN configOptions
    BY <1>1, <2>2 DEF LoggerIsSaid, key
  <2> QED
    BY <2>1, <2>2
<1>6. ASSUME name \in DOMAIN loggers
      PROVE  /\ loggers[name] = [level |-> LevelIn(options)[1][2], channels |-> ChannelsIn(options)]
             /\ LevelIn(options)[1][2] <= highestLogLevel
             /\ LevelIn(options)[1][2] \in Int
  <2>1. LevelIn(options)[1][2] \in Int
    <3>1. LevelIn(options) # NoValue
      BY <1>3, <1>6 DEF Complete, Accepted
    <3>2. LevelIn(options) = NoValue \/ LevelIn(options)[1][2] \in Int
      BY LevelsAreNumbers
    <3> QED
      BY <3>1, <3>2
  <2> QED
    BY <1>6, <2>1 DEF LoggersMade, key
<1> QED
  BY <1>3, <1>4, <1>5, <1>6

\* The least number of a set.
LEMMA LowestIsLeast ==
    ASSUME NEW ks \in SUBSET Nat, ks # {}
    PROVE  Lowest(ks) \in ks /\ \A j \in ks : Lowest(ks) <= j
<1>1. \E k \in ks : \A j \in ks : k <= j
  BY Least
<1> QED
  BY <1>1 DEF Lowest

\* The way up of GetLoggerByType().
Climbing(filter, n, f) == f = [k \in 0 .. n |-> IF k = 0 THEN filter ELSE Above(f[k - 1])]

LEMMA PrefixOfPrefix ==
    ASSUME NEW X, NEW s \in Seq(X), NEW m \in 1 .. Len(s)
    PROVE  /\ SubSeq(s, 1, m) \in Seq(X) /\ Len(SubSeq(s, 1, m)) = m
           /\ m > 1 => SubSeq(SubSeq(s, 1, m), 1, m - 1) = SubSeq(s, 1, m - 1)
           /\ m = Len(s) => SubSeq(s, 1, m) = s
OBVIOUS

LEMMA LineageClimbs ==
    ASSUME NEW X, NEW filter \in Seq(X), filter # << >>
    PROVE  /\ DOMAIN Lineage(filter) = 1 .. Len(filter) + 1
           /\ Lineage(filter)[1] = filter
           /\ \A k \in 1 .. Len(filter) : Above(Lineage(filter)[k]) = Lineage(filter)[k + 1]
<1> DEFINE n == Len(filter)
           Row == Lineage(filter)
<1>1. n \in Nat /\ n >= 1
  OBVIOUS
<1>2. /\ DOMAIN Row = 1 .. n + 1 /\ Row[n + 1] = LOGGER_ROOT
      /\ \A k \in 1 .. n : Row[k] = SubSeq(filter, 1, n + 1 - k)
  BY DEF Lineage
<1> HIDE DEF Row
<1>3. Row[1] = filter
  BY <1>1, <1>2, PrefixOfPrefix
<1>4. ASSUME NEW k \in 1 .. n PROVE Above(Row[k]) = Row[k + 1]
  <2> DEFINE m == n + 1 - k
             p == Row[k]
  <2>1. m \in 1 .. n /\ p = SubSeq(filter, 1, m)
    BY <1>1, <1>2
  <2>2. Len(p) = m /\ (m > 1 => SubSeq(p, 1, m - 1) = SubSeq(filter, 1, m - 1))
    BY <2>1, PrefixOfPrefix
  <2>3. CASE m > 1
    <3>1. k + 1 \in 1 .. n /\ n + 1 - (k + 1) = m - 1
      BY <1>1, <2>3
    <3>2. Row[k + 1] = SubSeq(filter, 1, m - 1)
      BY <1>2, <3>1
    <3>3. Above(p) = SubSeq(p, 1, m - 1)
      <4> HIDE DEF p, m
      <4> QED
        BY <2>2, <2>3 DEF Above
    <3> QED
      BY <2>2, <2>3, <3>2, <3>3
  <2>4. CASE m = 1
    <3>1. k = n
      BY <1>1, <2>4
    <3>2. Above(p) = LOGGER_ROOT
      <4> HIDE DEF p, m
      <4> QED
        BY <2>2, <2>4 DEF Above
    <3> QED
      BY <1>2, <3>1, <3>2
  <2> QED
    BY <2>1, <2>3, <2>4
<1> QED
  BY <1>1, <1>2, <1>3, <1>4 DEF Row

LEMMA ClimbingExists ==
    ASSUME NEW X, NEW filter \in Seq(X), filter # << >>
    PROVE  \E f : Climbing(filter, Len(filter), f)
<1> DEFINE n == Len(filter)
           Row == Lineage(filter)
           f == [k \in 0 .. n |-> Row[k + 1]]
<1>1. n \in Nat
  OBVIOUS
<1>2. Row[1] = filter /\ \A k \in 1 .. n : Above(Row[k]) = Row[k + 1]
  BY LineageClimbs
<1> HIDE DEF Row, n
<1>3. ASSUME NEW k \in 0 .. n PROVE f[k] = IF k = 0 THEN filter ELSE Above(f[k - 1])
  <2>1. CASE k = 0
    BY <1>1, <1>2, <2>1
  <2>2. CASE k # 0
    <3>1. k \in 1 .. n /\ k - 1 \in 0 .. n
      BY <1>1, <2>2
    <3>2. f[k] = Row[k + 1] /\ f[k - 1] = Row[k]
      BY <1>1, <3>1
    <3> QED
      BY <1>2, <2>2, <3>1, <3>2
  <2> QED
    BY <2>1, <2>2
<1> DEFINE g == [k \in 0 .. n |-> IF k = 0 THEN filter ELSE Above(f[k - 1])]
<1>4. f = g
  <2>1. ASSUME NEW k \in 0 .. n PROVE f[k] = g[k]
    BY <1>3, Zenon
  <2>2. DOMAIN f = 0 .. n /\ DOMAIN g = 0 .. n
    OBVIOUS
  <2>3. f = [k \in 0 .. n |-> f[k]] /\ g = [k \in 0 .. n |-> g[k]]
    OBVIOUS
  <2> HIDE DEF f, g
  <2> QED
    BY <2>1, <2>2, <2>3
<1> QED
  BY <1>4, Zenon DEF Climbing, n

\* GetLoggerByType() finds the nearest logger that the files describe.
LEMMA NearestIsFound ==
    ASSUME InputOK, OptionsOK, OptionsAreLayered, Loaded, LoggersMade({}),
           NEW X, NEW filter \in Seq(X), filter # << >>
    PROVE  LET line == Lineage(filter)
               said == {k \in DOMAIN line : LoggerIsSaid(line[k])}
               nearest == line[Lowest(said)]
           IN /\ said = {} => GetLoggerByType(filter) = NoValue
              /\ said # {} => /\ LoggerIsSaid(nearest)
                              /\ GetLoggerByType(filter) = <<loggers[nearest]>>
<1> DEFINE n == Len(filter)
           line == Lineage(filter)
           said == {k \in DOMAIN line : LoggerIsSaid(line[k])}
           found(f) == {k \in 0 .. n : f[k] \in DOMAIN loggers}
<1>1. n \in Nat
  OBVIOUS
<1>2. /\ DOMAIN line = 1 .. n + 1 /\ line[1] = filter
      /\ \A k \in 1 .. n : Above(line[k]) = line[k + 1]
  BY LineageClimbs
<1>3. PICK f : /\ Climbing(filter, n, f)
               /\ GetLoggerByType(filter) = IF found(f) = {} THEN NoValue ELSE <<loggers[f[Lowest(found(f))]]>>
  <2> DEFINE f == CHOOSE e : Climbing(filter, n, e)
  <2>1. Climbing(filter, n, f)
    BY ClimbingExists
  <2>2. GetLoggerByType(filter) = IF found(f) = {} THEN NoValue ELSE <<loggers[f[Lowest(found(f))]]>>
    BY Zenon DEF GetLoggerByType, Climbing
  <2> QED
    BY <2>1, <2>2
<1>4. \A k \in 0 .. n : f[k] = IF k = 0 THEN filter ELSE Above(f[k - 1])
  BY <1>3, Zenon DEF Climbing
<1> HIDE DEF n, line
<1>5. \A k \in 0 .. n : f[k] = line[k + 1]
  <2> DEFINE P == {k \in 0 .. n : f[k] = line[k + 1]}
  <2>1. 0 \in P
    <3>1. 0 \in 0 .. n
      BY <1>1
    <3>2. f[0] = filter
      BY <1>4, <3>1
    <3> QED
      BY <1>2, <3>1, <3>2
  <2>2. ASSUME NEW k \in 1 .. n, k - 1 \in P PROVE k \in P
    <3>1. k \in 0 .. n /\ k # 0 /\ (k - 1) + 1 = k
      BY <1>1
    <3>2. f[k] = Above(f[k - 1])
      BY <1>4, <3>1
    <3>3. f[k - 1] = line[k]
      BY <2>2, <3>1
    <3> QED
      BY <1>2, <3>1, <3>2, <3>3
  <2>3. \A k \in 0 .. n : k \in P
    <3> HIDE DEF P
    <3> QED
      BY <1>1, <2>1, <2>2, Climb
  <2> QED
    BY <2>3
<1> DEFINE F == found(f)
<1>6. \A name : name \in DOMAIN loggers <=> LoggerIsSaid(name)
  BY LoggersAreSaid
<1>7. \A k \in 0 .. n : k \in F <=> k + 1 \in said
  BY <1>1, <1>2, <1>5, <1>6
<1>8. F \in SUBSET Nat /\ F \subseteq 0 .. n /\ said \in SUBSET Nat /\ said \subseteq 1 .. n + 1
  BY <1>1, <1>2
<1>9. GetLoggerByType(filter) = IF F = {} THEN NoValue ELSE <<loggers[f[Lowest(F)]]>>
  BY <1>3
<1>10. \A k \in said : LoggerIsSaid(line[k])
  OBVIOUS
<1> HIDE DEF F, said
<1>11. F = {} <=> said = {}
  <2>1. \A k \in said : k - 1 \in 0 .. n /\ (k - 1) + 1 = k
    BY <1>1, <1>8
  <2> QED
    BY <1>7, <1>8, <2>1
<1>12. ASSUME said # {} PROVE Lowest(said) = Lowest(F) + 1 /\ Lowest(F) \in 0 .. n /\ Lowest(said) \in said
  <2> DEFINE a == Lowest(F)
             b == Lowest(said)
  <2>1. a \in F /\ \A j \in F : a <= j
    BY <1>8, <1>11, <1>12, LowestIsLeast
  <2>2. b \in said /\ \A j \in said : b <= j
    BY <1>8, <1>12, LowestIsLeast
  <2> HIDE DEF a, b
  <2>3. b - 1 \in 0 .. n /\ (b - 1) + 1 = b /\ a \in 0 .. n
    BY <1>1, <1>8, <2>1, <2>2
  <2>4. a <= b - 1
    BY <1>7, <2>1, <2>2, <2>3
  <2>5. b <= a + 1
    BY <1>7, <2>1, <2>2, <2>3
  <2>6. b = a + 1
    BY <1>1, <2>3, <2>4, <2>5
  <2> QED
    BY <2>2, <2>3, <2>6 DEF a, b
<1>13. CASE said = {}
  BY <1>9, <1>11, <1>13 DEF said, line
<1>14. CASE said # {}
  <2>1. f[Lowest(F)] = line[Lowest(said)]
    BY <1>5, <1>12, <1>14
  <2>2. LoggerIsSaid(line[Lowest(said)])
    BY <1>10, <1>12, <1>14
  <2>3. GetLoggerByType(filter) = <<loggers[line[Lowest(said)]]>>
    BY <1>9, <1>11, <1>14, <2>1
  <2> QED
    BY <1>14, <2>2, <2>3, Zenon DEF said, line
<1> QED
  BY <1>13, <1>14

\* The channels of a logger are a sequence.
LEMMA ChannelsAreSequence ==
    ASSUME NEW options \in Text, Len(TokenizeCommas(options)) >= 2
    PROVE  \E X : ChannelsIn(options) \in Seq(X)
<1>1. options[1] = "list" /\ options[2] \in Seq(Plain)
  <2>1. options[1] = "list"
    BY DEF TokenizeCommas
  <2>2. options \in {"list"} \X Seq(Plain)
    <3>1. options \in Plain \/ options \in {"list"} \X Seq(Plain)
      BY Zenon DEF Text
    <3>2. ASSUME options \in Plain PROVE FALSE
      BY <2>1, <3>2 DEF Plain
    <3> QED
      BY <3>1, <3>2
  <2> QED
    BY <2>1, <2>2
<1> DEFINE token == options[2][2]
<1>2. GetPositionOptions(options, 2) = token /\ token \in Plain
  <2>1. TokenizeCommas(options) = options[2]
    BY <1>1 DEF TokenizeCommas
  <2> QED
    BY <1>1, <2>1 DEF GetPositionOptions
<1> HIDE DEF token
<1>3. CASE token[1] = "words"
  <2>1. token[2] \in Seq(STRING)
    BY <1>2, <1>3 DEF Plain
  <2> QED
    BY <1>2, <1>3, <2>1 DEF ChannelsIn, TokenizeSpaces
<1>4. CASE token[1] # "words"
  <2>1. ChannelsIn(options) = << >> \/ ChannelsIn(options) = <<token[2]>>
    BY <1>2, <1>4 DEF ChannelsIn, TokenizeSpaces
  <2>2. << >> \in Seq({token[2]}) /\ <<token[2]>> \in Seq({token[2]})
    OBVIOUS
  <2> QED
    BY <2>1, <2>2
<1> QED
  BY <1>3, <1>4

\* Poco's way of a message agrees with the one expected, and so does ShouldLog().
LEMMA WrittenAsExpected ==
    ASSUME InputOK, OptionsOK, OptionsAreLayered, Loaded, LoggersMade({}), highestLogLevel \in Int,
           NEW X, NEW filter \in Seq(X), filter # << >>, NEW level \in Int, NEW text
    PROVE  /\ Write(filter, level, text) = Expected(filter, level, text)
           /\ level >= 1 => (ShouldLog(filter, level) <=> Expected(filter, level, text) # << >>)
<1> DEFINE line == Lineage(filter)
           said == {k \in DOMAIN line : LoggerIsSaid(line[k])}
           nearest == line[Lowest(said)]
           channels == SaidChannels(nearest)
           fine == {i \in DOMAIN channels : \A j \in 1 .. i : channels[j] \notin BrokenChannels}
           least == SaidLevel(nearest)[1][2]
           sent == <<[text |-> text, to |-> {channels[i] : i \in fine}]>>
<1>1. /\ said = {} => GetLoggerByType(filter) = NoValue
      /\ said # {} => LoggerIsSaid(nearest) /\ GetLoggerByType(filter) = <<loggers[nearest]>>
  BY NearestIsFound
<1>2. Expected(filter, level, text) = IF said = {} \/ least < level THEN << >> ELSE sent
  BY Zenon DEF Expected
<1>3. CASE said = {}
  <2>1. GetLoggerByType(filter) = NoValue
    BY <1>1, <1>3
  <2>2. Expected(filter, level, text) = << >>
    BY <1>2, <1>3
  <2> QED
    BY <2>1, <2>2 DEF Write, ShouldLog
<1>4. CASE said # {}
  <2> HIDE DEF line, said
  <2>1. /\ LoggerIsSaid(nearest) /\ GetLoggerByType(filter) = <<loggers[nearest]>>
        /\ loggers[nearest] = [level |-> least, channels |-> channels]
        /\ least <= highestLogLevel /\ least \in Int
    BY <1>1, <1>4, LoggersAreSaid
  <2>2. \E C : channels \in Seq(C)
    <3> DEFINE key == <<"Logger", nearest>>
               options == Says(key)[1]
    <3>1. Says(key) # NoValue /\ Len(TokenizeCommas(options)) >= 2
      BY <2>1 DEF LoggerIsSaid
    <3>2. Says(key) = IF key \in DOMAIN configOptions THEN <<configOptions[key]>> ELSE NoValue
      BY HoldsWhatFilesSay DEF NoName
    <3>3. options \in Text
      BY <3>1, <3>2 DEF OptionsOK
    <3>4. channels = ChannelsIn(options)
      BY DEF SaidChannels, ChannelsIn
    <3> HIDE DEF key, options, channels, nearest
    <3> QED
      BY <3>1, <3>3, <3>4, ChannelsAreSequence
  <2> HIDE DEF nearest, channels, least
  <2> DEFINE broken == {i \in DOMAIN channels : channels[i] \in BrokenChannels}
             reached == {i \in DOMAIN channels : \A j \in broken : i < j}
  <2>3. reached = fine
    <3>1. PICK C : channels \in Seq(C)
      BY <2>2
    <3>2. Len(channels) \in Nat /\ DOMAIN channels = 1 .. Len(channels)
      BY <3>1
    <3>3. ASSUME NEW i \in DOMAIN channels
          PROVE  (\A j \in broken : i < j) <=> (\A j \in 1 .. i : channels[j] \notin BrokenChannels)
      BY <3>2
    <3> HIDE DEF broken
    <3> QED
      BY <3>3
  <2>4. Write(filter, level, text) = IF least < level THEN << >> ELSE sent
    <3>1. Write(filter, level, text) = PocoLog([level |-> least, channels |-> channels], level, text)
      BY <2>1 DEF Write, NoValue
    <3>2. PocoLog([level |-> least, channels |-> channels], level, text)
             = IF least < level THEN << >> ELSE <<[text |-> text, to |-> {channels[i] : i \in reached}]>>
      BY Zenon DEF PocoLog
    <3> HIDE DEF reached, fine
    <3> QED
      BY <2>3, <3>1, <3>2
  <2>5. level >= 1 => (ShouldLog(filter, level) <=> ~(least < level))
    BY <2>1 DEF ShouldLog, NoValue
  <2>6. sent # << >>
    OBVIOUS
  <2> HIDE DEF sent
  <2> QED
    BY <1>2, <1>4, <2>4, <2>5, <2>6
<1> QED
  BY <1>3, <1>4

LEMMA LogMessageStep ==
    ASSUME InputOK, OptionsOK, OptionsAreLayered, Loaded, LogOK, LogMessage, main' = main
    PROVE  LogOK' /\ MessagesReachChannels'
<1>1. PICK filter \in Filters, level \in MessageLevels, text \in {"plain", "braces"} :
          written' = [filter |-> filter, level |-> level, text |-> text,
                      out |-> IF ~ShouldLog(filter, level) THEN << >>
                              ELSE IF text = "plain" THEN Write(filter, level, text)
                              ELSE Write(<<"server">>, LOG_LEVEL_ERROR, "wrongFormat")]
  BY DEF LogMessage
<1>2. /\ logState = "ready" /\ logState' = "ready" /\ LoggersMade({}) /\ highestLogLevel \in Int
      /\ highestLogLevel' = highestLogLevel /\ loggers' = loggers /\ main = "running"
      /\ configOptions' = configOptions /\ files' = files /\ filename' = filename
  BY DEF LogMessage, LogOK
<1>3. written'.filter = filter /\ written'.level = level /\ written'.text = text
  BY <1>1
<1>4. filter \in Seq(STRING) /\ filter # << >> /\ level \in Int /\ level >= 1
  BY FiltersAssumption, LevelsAssumption DEF LOG_LEVEL_FATAL, LOG_LEVEL_MAX
<1>5. LoggersMade({})'
  <2>1. LoggerKeys' = LoggerKeys /\ \A name, o : Complete(name, o)' = Complete(name, o)
    BY <1>2, SameOptionsMakeSame
  <2> QED
    BY <1>2, <2>1 DEF LoggersMade
<1>6. LogOK'
  BY <1>2, <1>3, <1>5 DEF LogOK
<1>7. \A f, l, t : Expected(f, l, t)' = Expected(f, l, t)
  BY <1>2, SameFilesExpectSame
<1>8. ShouldLog(filter, level) <=> Expected(filter, level, "") # << >>
  BY <1>2, <1>4, WrittenAsExpected
<1>9. /\ Write(filter, level, "plain") = Expected(filter, level, "plain")
      /\ ShouldLog(filter, level) <=> Expected(filter, level, "plain") # << >>
  BY <1>2, <1>4, WrittenAsExpected
<1>10. Write(<<"server">>, LOG_LEVEL_ERROR, "wrongFormat") = Expected(<<"server">>, LOG_LEVEL_ERROR, "wrongFormat")
  <2>1. <<"server">> \in Seq({"server"}) /\ <<"server">> # << >> /\ LOG_LEVEL_ERROR \in Int
    BY DEF LOG_LEVEL_ERROR
  <2> QED
    BY <1>2, <2>1, WrittenAsExpected
<1>11. MessagesReachChannels'
  <2>1. CASE text = "plain"
    <3>1. written'.out = Expected(filter, level, "plain")
      BY <1>1, <1>9, <2>1
    <3> QED
      BY <1>3, <1>7, <2>1, <3>1 DEF MessagesReachChannels
  <2>2. CASE text # "plain"
    <3>1. written'.out = IF Expected(filter, level, "") = << >> THEN << >>
                         ELSE Expected(<<"server">>, LOG_LEVEL_ERROR, "wrongFormat")
      BY <1>1, <1>8, <1>10, <2>2
    <3> QED
      BY <1>3, <1>7, <2>2, <3>1 DEF MessagesReachChannels
  <2> QED
    BY <2>1, <2>2
<1> QED
  BY <1>6, <1>11

LEMMA LogStep ==
    ASSUME InputOK, OptionsOK, OptionsAreLayered, LogOK, MessagesReachChannels, [Next]_vars
    PROVE  LogOK' /\ MessagesReachChannels'
<1>1. ASSUME UNCHANGED vars PROVE LogOK' /\ MessagesReachChannels'
  <2>1. /\ highestLogLevel' = highestLogLevel /\ channelStore' = channelStore /\ loggers' = loggers
        /\ loading' = loading /\ logState' = logState /\ written' = written /\ main' = main
        /\ configOptions' = configOptions /\ files' = files /\ filename' = filename
    BY <1>1 DEF vars, logVars, configVars
  <2>2. /\ ChannelKeys' = ChannelKeys /\ LoggerKeys' = LoggerKeys
        /\ \A name, o : Complete(name, o)' = Complete(name, o)
    BY <2>1, SameOptionsMakeSame
  <2>3. \A todo : ChannelsMade(todo)' = ChannelsMade(todo) /\ LoggersMade(todo)' = LoggersMade(todo)
    BY <2>1, <2>2 DEF ChannelsMade, LoggersMade
  <2>4. LogOK'
    BY <2>1, <2>3 DEF LogOK
  <2>5. \A f, l, t : Expected(f, l, t)' = Expected(f, l, t)
    BY <2>1, SameFilesExpectSame
  <2> QED
    BY <2>1, <2>4, <2>5 DEF MessagesReachChannels
<1>2. ASSUME ParseArguments \/ Load PROVE LogOK' /\ MessagesReachChannels'
  <2>1. main # "running" /\ logState' = logState /\ written' = written /\ highestLogLevel' = highestLogLevel
    BY <1>2 DEF ParseArguments, Load, logVars
  <2>2. logState = "none" /\ written = NoMessage /\ highestLogLevel \in Int
    BY <2>1 DEF LogOK
  <2> QED
    BY <2>1, <2>2 DEF LogOK, MessagesReachChannels
<1>3. ASSUME InitializeLog PROVE LogOK' /\ MessagesReachChannels'
  BY <1>3, LoadFromConfigStep DEF InitializeLog, MessagesReachChannels
<1>4. ASSUME LogLoads PROVE LogOK' /\ MessagesReachChannels'
  <2>1. Loaded
    BY <1>4 DEF LogLoads, CreateChannelsFromConfig, ChannelsRead, CreateLoggerFromConfig, LoggersRead, LogOK, Loaded
  <2> QED
    BY <1>4, <2>1, LogLoadsStep DEF MessagesReachChannels
<1>5. ASSUME Call PROVE LogOK' /\ MessagesReachChannels'
  <2>1. Loaded /\ main = "running" /\ main' = main /\ logState = "ready"
    BY <1>5 DEF Call, Loaded
  <2>2. CASE UseConfig
    <3>1. /\ written' = NoMessage /\ highestLogLevel' = highestLogLevel /\ loggers' = loggers
          /\ logState' = logState /\ configOptions' = configOptions
      BY <2>2 DEF UseConfig, UseOptions, AddOption, GetOption, SetOption, AskConfigMgr
    <3>2. LoggerKeys' = LoggerKeys /\ \A name, o : Complete(name, o)' = Complete(name, o)
      BY <3>1, SameOptionsMakeSame
    <3>3. LoggersMade({})'
      BY <2>1, <3>1, <3>2 DEF LogOK, LoggersMade
    <3> QED
      BY <2>1, <3>1, <3>3 DEF LogOK, MessagesReachChannels
  <2>3. CASE LogMessage
    BY <2>1, <2>3, LogMessageStep
  <2>4. CASE LoadFromConfig
    BY <2>1, <2>4, LoadFromConfigStep DEF MessagesReachChannels
  <2> QED
    BY <1>5, <2>2, <2>3, <2>4 DEF Call
<1> QED
  BY <1>1, <1>2, <1>3, <1>4, <1>5 DEF Next

-----------------------------------------------------------------------------
(***************************************************************************)
(* Theorems                                                                *)
(***************************************************************************)
LEMMA InitOK ==
    ASSUME Init
    PROVE  StartupInv
<1>1. main = "args" /\ answer = NoAnswer /\ cache = << >> /\ wasSet = << >> /\ written = NoMessage
      /\ logState = "none" /\ highestLogLevel = LOG_LEVEL_FATAL
  BY DEF Init, ConfigInit, LogInit
<1>2. InputOK
  BY ScenariosAssumption DEF Init, InputOK
<1>3. OptionsOK /\ OptionsAreLayered
  BY <1>1 DEF OptionsOK, OptionsAreLayered, Loaded
<1>4. CacheOK /\ AnswersFollowFiles
  BY <1>1 DEF CacheOK, AnswersFollowFiles
<1>5. LogOK /\ MessagesReachChannels
  BY <1>1 DEF LogOK, MessagesReachChannels, LOG_LEVEL_FATAL
<1> QED
  BY <1>2, <1>3, <1>4, <1>5 DEF StartupInv

\* The invariant holds of every run, for every command line, all files, all options
\* the program asks for or sets, all messages and all channels that throw.
THEOREM StartupIsRight == Spec => []StartupInv
<1>1. Init => StartupInv
  BY InitOK
<1>2. StartupInv /\ [Next]_vars => StartupInv'
  BY InputStep, OptionsStep, AnswersStep, LogStep DEF StartupInv
<1> QED
  BY <1>1, <1>2, PTL DEF Spec

\* LoadAppConfigs(): main() runs on only if the .dist file was read to its end and has
\* options; then ConfigMgr holds exactly what the two files say, in two layers.
THEOREM OptionsLayered == Spec => []OptionsAreLayered
<1>1. StartupInv => OptionsAreLayered
  BY DEF StartupInv
<1> QED
  BY <1>1, StartupIsRight, PTL

\* GetOption(): an answer is what was set last, or what the files say, whatever was
\* asked, added or set before.
THEOREM AnswersRight == Spec => []AnswersFollowFiles
<1>1. StartupInv => AnswersFollowFiles
  BY DEF StartupInv
<1> QED
  BY <1>1, StartupIsRight, PTL

\* LOG_MSG_BODY: a message goes exactly to the channels of the nearest logger that the
\* files describe completely, at the level they give it.
THEOREM MessagesArrive == Spec => []MessagesReachChannels
<1>1. StartupInv => MessagesReachChannels
  BY DEF StartupInv
<1> QED
  BY <1>1, StartupIsRight, PTL
=============================================================================
