---------------------------- MODULE CmdLineParser ----------------------------
(***************************************************************************)
(* The command line parser of the host program (cmdlineparser.cpp) and a   *)
(* program that uses it: it registers its switches, may set a default key, *)
(* then has its arguments parsed, one token a step.                        *)
(*                                                                         *)
(* A token is <<dashes, text>>: "--xclbin" is <<2, "xclbin">>, "-x" is     *)
(* <<1, "x">>, anything else has no dashes. What starts with -- is a key,  *)
(* one with three dashes too. Tokens are counted from 1.                   *)
(***************************************************************************)
EXTENDS Integers, Sequences, FiniteSetsExt

CONSTANTS
  Texts,    \* what tokens say
  Clients,  \* the calls a program makes before it parses, by the program's name
  Argvs     \* the command lines, program name first

VARIABLES
  client,       \* the program
  called,       \* how many of its calls it has made
  argv, i,      \* parse: the arguments, the place of the token that comes next
  keys,         \* m_mapKeySwitch
  shortcuts,    \* m_mapShortcutKeys
  default_key,  \* m_strDefaultKey
  appname,      \* m_appname
  ctOptions,    \* options seen by parse
  parsed        \* how parse has ended

parserVars == <<client, called, argv, i, keys, shortcuts, default_key, appname, ctOptions, parsed>>

\* Tokens, and the calls of a program.
Token    == (0 .. 3) \X Texts
Text(t)  == <<0, t>>
Long(t)  == <<2, t>>
Short(t) == <<1, t>>
Empty    == Text("")

\* A switch as addSwitch takes it, and as the parser keeps it.
Switch(key, shortcut, desc, default, istoggle) ==
  [op |-> "addSwitch", key |-> key, shortcut |-> shortcut, desc |-> desc, default |-> default, istoggle |-> istoggle]
DefaultKey(key) == [op |-> "setDefaultKey", key |-> key]

Calls == [op : {"addSwitch"}, key : Token, shortcut : Token, desc : BOOLEAN, default : Token, istoggle : BOOLEAN]
           \cup [op : {"setDefaultKey"}, key : Token]

ASSUME CallsAssumption == \A c \in DOMAIN Clients : Clients[c] \in Seq(Calls)
ASSUME ArgvsAssumption == \A a \in Argvs : a \in Seq(Token) /\ a # <<>>

Kept(s) ==
  LET d == IF s.istoggle THEN Text("false") ELSE s.default
  IN [istoggle |-> s.istoggle, default |-> d, value |-> d, isvalid |-> s.istoggle]

\* "over": the program is done with its arguments.
Results == {"no", "ok", "unknown", "help", "crash", "over"}

ParserTypeOK ==
  /\ called \in 0 .. Len(Clients[client]) /\ i \in 1 .. Len(argv) + 1
  /\ default_key \in DOMAIN keys \cup {Empty} /\ ctOptions \in 0 .. Len(argv) /\ parsed \in Results
  /\ \A k \in DOMAIN keys : k[1] >= 2 /\ keys[k].isvalid \in BOOLEAN
  /\ \A s \in DOMAIN shortcuts : shortcuts[s] \in DOMAIN keys

\* The constructor registers --help.
Help == Long("help")
ParserInit ==
  /\ client \in DOMAIN Clients /\ called = 0
  /\ argv \in Argvs /\ i = 1
  /\ keys = [k \in {Help} |-> Kept(Switch(Help, Short("h"), TRUE, Empty, TRUE))]
  /\ shortcuts = [s \in {Short("h")} |-> Help]
  /\ default_key = Empty /\ appname = Text("application.exe")
  /\ ctOptions = 0 /\ parsed = "no"

-----------------------------------------------------------------------------
\* The switch needs a description and a new key that starts with -- and has a name.
Accepted(s) == s.desc /\ s.key[1] >= 2 /\ s.key # Long("") /\ s.key \notin DOMAIN keys

\* Map m with v for key x.
Put(m, x, v) == [y \in {x} \cup DOMAIN m |-> IF y = x THEN v ELSE m[y]]

\* A switch without a shortcut is given one, but it is filed under the empty shortcut it
\* came with: the shortcut it is said to have is known to printHelp only.
AddSwitch(s) ==
  /\ s.op = "addSwitch"
  /\ IF Accepted(s) THEN /\ keys' = Put(keys, s.key, Kept(s))
                         /\ shortcuts' = Put(shortcuts, s.shortcut, s.key)
                    ELSE UNCHANGED <<keys, shortcuts>>
  /\ UNCHANGED <<default_key, parsed>>

\* To make that shortcut up, "-" + key[2] adds a letter to the address of a literal: what lies
\* there is read as a string, and there may be nothing to read.
NoShortcut(s) ==
  /\ s.op = "addSwitch" /\ Accepted(s) /\ s.shortcut = Empty
  /\ parsed' = "crash"
  /\ UNCHANGED <<keys, shortcuts, default_key>>

\* A key that does not start with -- is given two dashes, one that starts with - too.
Dashed(key) == IF key[1] >= 2 THEN key ELSE <<key[1] + 2, key[2]>>

\* The test for a toggle looks at the default key there was.
SetDefaultKey(s) ==
  LET key == Dashed(s.key)
      ok  == key \in DOMAIN keys /\ (default_key # Empty => ~keys[default_key].istoggle)
  IN /\ s.op = "setDefaultKey"
     /\ default_key' = IF ok THEN key ELSE default_key
     /\ UNCHANGED <<keys, shortcuts, parsed>>

\* The program does not look at what the calls return.
Register ==
  /\ called < Len(Clients[client]) /\ parsed = "no"
  /\ LET s == Clients[client][called + 1] IN
       \/ (AddSwitch(s) \/ SetDefaultKey(s)) /\ called' = called + 1
       \/ NoShortcut(s) /\ UNCHANGED called
  /\ UNCHANGED <<client, argv, i, appname, ctOptions>>

-----------------------------------------------------------------------------
token == argv[i]

\* token_to_fullkeyname
Known(t)   == (t[1] >= 2 /\ t \in DOMAIN keys) \/ (t[1] = 1 /\ t \in DOMAIN shortcuts)
FullKey(t) == IF t[1] >= 2 THEN t ELSE shortcuts[t]

isNextTokenKey == i < Len(argv) /\ Known(argv[i + 1])

\* Mutant: the last token, not the one before it, asks for the default key.
AtDefaultLast == token[1] = 0 /\ ~isNextTokenKey /\ default_key # Empty /\ i = Len(argv)

\* The token before the last one, when no key follows, stands for the default key.
AtDefault == token[1] = 0 /\ ~isNextTokenKey /\ default_key # Empty /\ i = Len(argv) - 1

Parsing == called = Len(Clients[client]) /\ parsed = "no"
Option  == Parsing /\ i =< Len(argv) /\ (Known(token) \/ AtDefault)
Key     == IF AtDefault THEN default_key ELSE FullKey(token)

Set(key, value) == keys' = [keys EXCEPT ![key].value = value, ![key].isvalid = TRUE]

UnrecognizedKey ==
  /\ Parsing /\ i =< Len(argv) /\ token[1] > 0 /\ ~Known(token)
  /\ parsed' = "unknown"
  /\ UNCHANGED <<keys, i, appname, ctOptions>>

HelpAsked ==
  /\ Option /\ Key = Help
  /\ parsed' = "help" /\ ctOptions' = ctOptions + 1
  /\ UNCHANGED <<keys, i, appname>>

Toggle ==
  /\ Option /\ Key # Help /\ keys[Key].istoggle
  /\ Set(Key, Text("true"))
  /\ i' = i + 1 /\ ctOptions' = ctOptions + 1
  /\ UNCHANGED <<appname, parsed>>

\* Whatever follows is the value, a key too. Behind the last argument argv holds a null
\* pointer, of which no string can be made.
TakeValue ==
  /\ Option /\ ~keys[Key].istoggle
  /\ ctOptions' = ctOptions + 1
  /\ IF i = Len(argv)
     THEN parsed' = "crash" /\ UNCHANGED <<keys, i>>
     ELSE Set(Key, argv[i + 1]) /\ i' = i + 2 /\ UNCHANGED parsed
  /\ UNCHANGED appname

PlainToken ==
  /\ Parsing /\ i =< Len(argv) /\ token[1] = 0 /\ ~AtDefault
  /\ i' = i + 1
  /\ UNCHANGED <<keys, appname, ctOptions, parsed>>

ParseEnd ==
  /\ Parsing /\ i = Len(argv) + 1
  /\ appname' = argv[1] /\ parsed' = "ok"
  /\ UNCHANGED <<keys, i, ctOptions>>

ParseStep ==
  /\ UnrecognizedKey \/ HelpAsked \/ Toggle \/ TakeValue \/ PlainToken \/ ParseEnd
  /\ UNCHANGED <<client, called, argv, shortcuts, default_key>>

ParserNext == Register \/ ParseStep

\* value and isValid
Value(key)   == IF Dashed(key) \in DOMAIN keys THEN keys[Dashed(key)].value ELSE Empty
IsValid(key) == Dashed(key) \in DOMAIN keys /\ keys[Dashed(key)].isvalid

-----------------------------------------------------------------------------
\* What a command line means, place by place: the option a place names, if it names one;
\* the values, which stand behind options that take one and name nothing; the first
\* place parse cannot pass.
Place == 1 .. Len(argv)
Named(j) ==
  CASE argv[j][1] = 0                                   -> default_key
    [] argv[j][1] >= 2 /\ argv[j] \in DOMAIN keys     -> argv[j]
    [] argv[j][1] = 1 /\ argv[j] \in DOMAIN shortcuts -> shortcuts[argv[j]]
    [] OTHER                                            -> Empty
NamesOption(j) == Named(j) # Empty /\ (argv[j][1] = 0 => j + 1 = Len(argv) /\ ~Known(argv[Len(argv)]))
TakesValue(j)  == NamesOption(j) /\ ~keys[Named(j)].istoggle
Values  == CHOOSE V \in SUBSET Place : \A j \in Place : j \in V <=> j > 1 /\ TakesValue(j - 1) /\ j - 1 \notin V
Options == {j \in Place \ Values : NamesOption(j)}
Stops ==
  [unknown |-> {j \in Place \ Values : argv[j][1] > 0 /\ j \notin Options},
   help    |-> {j \in Options : Named(j) = Help},
   crash   |-> {j \in Options : TakesValue(j) /\ j = Len(argv)}]

\* Parsing from left to right gives every switch the meaning the whole command line has: the last
\* value given to it before the first place that stops the parse, its default if it is not
\* given; a toggle is valid in any case. The parse stops, and crashes, exactly where it must.
ParseRight ==
  called = Len(Clients[client]) /\ parsed \notin {"no", "over"} =>
    LET stops == UNION {Stops[r] : r \in DOMAIN Stops}
        seen  == IF stops = {} THEN Options ELSE {j \in Options : j < Min(stops)}
        given(k) == {j \in seen : Named(j) = k}
    IN /\ IF stops = {} THEN parsed = "ok" /\ ctOptions = Cardinality(seen)
          ELSE parsed \in DOMAIN Stops /\ Min(stops) \in Stops[parsed]
       /\ \A k \in DOMAIN keys :
            /\ Value(k) = IF given(k) = {} THEN keys[k].default
                          ELSE IF keys[k].istoggle THEN Text("true") ELSE argv[Max(given(k)) + 1]
            /\ IsValid(k) <=> keys[k].istoggle \/ given(k) # {}
=============================================================================
