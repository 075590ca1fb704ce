-------------------------------- MODULE Log --------------------------------
(***************************************************************************)
(* The log: channels and loggers made from the options of ConfigMgr, and   *)
(* the way of a message.  Channels and loggers are Poco's; a logger passes *)
(* a message of its level to its channels one after the other, and one     *)
(* that throws (a file that cannot be opened) keeps it from the rest.      *)
(***************************************************************************)
EXTENDS Config, FiniteSets

CONSTANTS Filters,        \* the filters of LOG_* calls, as sequences of names
          MessageLevels,  \* and their levels
          BrokenChannels  \* channels that throw

VARIABLES highestLogLevel,
          channelStore,   \* _channelStore: names of the channels made so far
          loggers,        \* Poco's loggers, name to level and channels
          loading,        \* options still to be read while LoadFromConfig() runs
          logState,       \* "none", "channels", "loggers", "ready", "aborted"
          written         \* the last LOG_* call and what it wrote where

logVars == <<highestLogLevel, channelStore, loggers, loading, logState, written>>

LOG_LEVEL_FATAL == 1
LOG_LEVEL_ERROR == 3
LOG_LEVEL_MAX == 9
ASSUME FiltersAssumption == Filters \subseteq Seq(STRING) \ {<< >>}
ASSUME LevelsAssumption == MessageLevels \subseteq LOG_LEVEL_FATAL .. LOG_LEVEL_MAX - 1
CHANNEL_OPTIONS_MAX == 9
LOGGER_ROOT == <<"root">>
NoMessage == [filter |-> << >>, level |-> 0, text |-> "", out |-> << >>]

\* A channel's options by position, "" where there are fewer.
GetPositionOptions(options, position) ==
    LET tokens == TokenizeCommas(options)
    IN IF Len(tokens) < position THEN EmptyText ELSE tokens[position]

-----------------------------------------------------------------------------
(***************************************************************************)
(* LoadFromConfig()                                                        *)
(***************************************************************************)
LogInit ==
    /\ highestLogLevel = LOG_LEVEL_FATAL /\ channelStore = {} /\ loggers = << >>
    /\ loading = {} /\ logState = "none" /\ written = NoMessage

\* Clear() removes what earlier calls made.
LoadFromConfig ==
    /\ logState \in {"none", "ready"}
    /\ highestLogLevel' = LOG_LEVEL_FATAL
    /\ loggers' = << >> /\ channelStore' = {}
    /\ loading' = GetKeysByString("LogChannel")
    /\ logState' = "channels" /\ written' = NoMessage
    /\ answer' = NoAnswer
    /\ UNCHANGED <<files, filename, configOptions, usingDistConfig, cache, wasSet>>

\* An option for a channel: type, times, pattern and up to six more.
ChannelIsMade(options) ==
    LET tokens == TokenizeCommas(options)
        type == StringTo("uint8", GetPositionOptions(options, 1))
    IN /\ options # EmptyText
       /\ Len(tokens) >= 3 /\ Len(tokens) <= CHANNEL_OPTIONS_MAX
       /\ type # NoValue /\ type[1][2] <= 2
       /\ GetPositionOptions(options, 2) # EmptyText
       /\ GetPositionOptions(options, 3) # EmptyText
IsConsole(options) == GetPositionOptions(options, 1) = Numeral(1)
IsFile(options) == GetPositionOptions(options, 1) = Numeral(2)

\* A channel that exists is kept.
GetFormattingChannel(name) == name \in channelStore
AddFormattingChannel(name) == channelStore \cup {name}

\* The options are read in the order of a hash table: any order.
CreateChannelsFromConfig ==
    /\ logState = "channels"
    /\ \E key \in loading :
          LET options == ConfigGetOption(key, EmptyText)
              made == ChannelIsMade(options)
              noFileName == made /\ IsFile(options) /\ Len(TokenizeCommas(options)) < 4
          IN /\ loading' = loading \ {key}
             /\ logState' = IF noFileName THEN "aborted" ELSE logState
             /\ channelStore' = IF made /\ ~noFileName /\ (IsConsole(options) \/ IsFile(options))
                                THEN AddFormattingChannel(key[2]) ELSE channelStore
    /\ UNCHANGED <<highestLogLevel, loggers, written, configVars>>

ChannelsRead ==
    /\ logState = "channels" /\ loading = {}
    /\ logState' = "loggers" /\ loading' = GetKeysByString("Logger")
    /\ UNCHANGED <<highestLogLevel, channelStore, loggers, written, configVars>>

\* The level raises the highest level before the channels are looked up: a logger
\* without its channels is not made.
CreateLoggerFromConfig ==
    /\ logState = "loggers"
    /\ \E key \in loading :
          LET options == ConfigGetOption(key, EmptyText)
              parsed == StringTo("uint8", GetPositionOptions(options, 1))
              level == IF parsed = NoValue THEN LOG_LEVEL_MAX ELSE parsed[1][2]
              accepted == /\ key[2] # <<"system">> /\ options # EmptyText
                          /\ Len(TokenizeCommas(options)) >= 2 /\ level < LOG_LEVEL_MAX
              names == TokenizeSpaces(GetPositionOptions(options, 2))
              found == \A i \in DOMAIN names : GetFormattingChannel(names[i])
          IN /\ loading' = loading \ {key}
             /\ highestLogLevel' =
                    IF accepted /\ level > highestLogLevel THEN level ELSE highestLogLevel
             /\ loggers' = IF accepted /\ found
                           THEN WithOption(loggers, key[2], [level |-> level, channels |-> names])
                           ELSE loggers
    /\ UNCHANGED <<channelStore, logState, written, configVars>>

LoggersRead ==
    /\ logState = "loggers" /\ loading = {}
    /\ logState' = "ready" /\ channelStore' = {}
    /\ UNCHANGED <<highestLogLevel, loggers, loading, written, configVars>>

-----------------------------------------------------------------------------
(***************************************************************************)
(* Messages                                                                *)
(***************************************************************************)

\* GetLoggerByType(): the logger of the filter or of the nearest name above it.
\* NoValue if there is none, not even "root".
Lowest(ks) == CHOOSE k \in ks : \A j \in ks : k <= j
Above(filter) == IF Len(filter) > 1 THEN SubSeq(filter, 1, Len(filter) - 1) ELSE LOGGER_ROOT
GetLoggerByType(filter) ==
    LET up[k \in 0 .. Len(filter)] == IF k = 0 THEN filter ELSE Above(up[k - 1])
        found == {k \in 0 .. Len(filter) : up[k] \in DOMAIN loggers}
    IN IF found = {} THEN NoValue
       ELSE <<loggers[up[Lowest(found)]]>>

\* Mutant of ShouldLog: the highest level does not count.
ShouldLogBelow(filter, level) ==
    LET logger == GetLoggerByType(filter)
    IN level < highestLogLevel /\ logger # NoValue /\ logger[1].level # 0 /\ logger[1].level >= level

\* ShouldLog(): by the highest level first.
ShouldLog(filter, level) ==
    LET logger == GetLoggerByType(filter)
    IN level <= highestLogLevel /\ logger # NoValue /\ logger[1].level # 0 /\ logger[1].level >= level

\* Poco: channels get the message in order until one throws.
PocoLog(logger, level, text) ==
    LET broken == {i \in DOMAIN logger.channels : logger.channels[i] \in BrokenChannels}
        reached == {i \in DOMAIN logger.channels : \A j \in broken : i < j}
    IN IF logger.level < level THEN << >>
       ELSE <<[text |-> text, to |-> {logger.channels[i] : i \in reached}]>>

Write(filter, level, text) ==
    LET logger == GetLoggerByType(filter)
    IN IF logger = NoValue THEN << >> ELSE PocoLog(logger[1], level, text)

\* LOG_MSG_BODY: the text is formatted twice, so that one with braces in it is not
\* written, but an error about its format.
LogMessage ==
    /\ logState = "ready"
    /\ \E filter \in Filters, level \in MessageLevels, text \in {"plain", "braces"} :
          written' = [filter |-> filter, level |-> level, text |-> text,
                      out |-> IF ~ShouldLog(filter, level) THEN << >>
                              ELSE IF text = "plain" THEN Write(filter, level, text)
                              ELSE Write(<<"server">>, LOG_LEVEL_ERROR, "wrongFormat")]
    /\ answer' = NoAnswer
    /\ UNCHANGED <<highestLogLevel, channelStore, loggers, loading, logState>>
    /\ UNCHANGED <<files, filename, configOptions, usingDistConfig, cache, wasSet>>

\* DiscordConfig's calls; `answer' and `written' are about the last call only.
UseConfig ==
    /\ UseOptions /\ written' = NoMessage
    /\ UNCHANGED <<highestLogLevel, channelStore, loggers, loading, logState>>

-----------------------------------------------------------------------------
(***************************************************************************)
(* Properties                                                              *)
(***************************************************************************)
SaidLevel(name) == StringTo("uint8", GetPositionOptions(Says(<<"Logger", name>>)[1], 1))
SaidChannels(name) == TokenizeSpaces(GetPositionOptions(Says(<<"Logger", name>>)[1], 2))

ChannelIsSaid(name) ==
    LET said == Says(<<"LogChannel", name>>)
    IN said # NoValue /\ ChannelIsMade(said[1]) /\ (IsConsole(said[1]) \/ IsFile(said[1]))

\* The files describe a logger completely: a level, and only channels that exist.
LoggerIsSaid(name) ==
    LET said == Says(<<"Logger", name>>)
    IN /\ name # <<"system">> /\ said # NoValue /\ Len(TokenizeCommas(said[1])) >= 2
       /\ SaidLevel(name) # NoValue /\ SaidLevel(name)[1][2] < LOG_LEVEL_MAX
       /\ \A i \in DOMAIN SaidChannels(name) : ChannelIsSaid(SaidChannels(name)[i])

\* The names a filter may be logged by, nearest first.
Lineage(filter) ==
    [k \in 1 .. Len(filter) |-> SubSeq(filter, 1, Len(filter) + 1 - k)] \o <<LOGGER_ROOT>>

\* What the files make of a message: the nearest logger they describe decides.
Expected(filter, level, text) ==
    LET line == Lineage(filter)
        said == {k \in DOMAIN line : LoggerIsSaid(line[k])}
        nearest == line[Lowest(said)]
    IN IF said = {} \/ SaidLevel(nearest)[1][2] < level THEN << >>
       ELSE LET channels == SaidChannels(nearest)
                fine == {i \in DOMAIN channels : \A j \in 1 .. i : channels[j] \notin BrokenChannels}
            IN <<[text |-> text, to |-> {channels[i] : i \in fine}]>>

\* From the two files to the channels: a message is written exactly where the nearest
\* logger sends it that the files describe completely, at the level they give.  The
\* shortcut over the highest level, loggers that are refused half-way and the order in
\* which options are read make no difference.  A message with braces leaves the error
\* about its format instead, where "server" logs errors.
MessagesReachChannels ==
    written # NoMessage =>
        written.out =
            IF written.text = "plain" THEN Expected(written.filter, written.level, "plain")
            ELSE IF Expected(written.filter, written.level, "") = << >> THEN << >>
            ELSE Expected(<<"server">>, LOG_LEVEL_ERROR, "wrongFormat")
=============================================================================
