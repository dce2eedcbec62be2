------------------------------ MODULE Startup ------------------------------
(***************************************************************************)
(* What the tracing runtime works out before the program starts            *)
(* (memapass/mema_rtl.cpp): the flags that MEMA_OPTIONS sets, and the      *)
(* functions that the "function" flag selects from the symbols of the      *)
(* executable.  A text is a sequence of tokens: a flag's name is one token *)
(* wherever it occurs, inside a file name too.                             *)
(***************************************************************************)
EXTENDS Naturals, Sequences, FiniteSets, SequencesExt

FlagNames == {"disable", "verbosity", "debug", "compression", "filename", "function"}
Space == " "
Quotes == {"quote", "apostrophe"}
Null == <<"null">>           \* a pointer that is NULL

\* atoll of a text that begins with this token.
Numeral == [d \in {"0", "1", "2"} |-> IF d = "0" THEN 0 ELSE IF d = "1" THEN 1 ELSE 2]

-----------------------------------------------------------------------------
\* The first of the places S, or what follows the text when there is none.
FirstOf(S, text) == IF S = {} THEN Len(text) + 1 ELSE CHOOSE i \in S : \A j \in S : i <= j
Is(text, i, c) == i <= Len(text) /\ text[i] = c

\* strstr, and a variant that finds the last place.
StrstrLast(env, name) ==
  LET places == {i \in 1..Len(env) : env[i] = name}
  IN IF places = {} THEN Len(env) + 1 ELSE CHOOSE i \in places : \A j \in places : j <= i
Strstr(env, name) == FirstOf({i \in 1..Len(env) : env[i] = name}, env)

\* GetFlagValue: a set of no value or one.  The name is looked for anywhere.
GetFlagValue(env, name) ==
  LET pos == Strstr(env, name)
      quoted == pos + 2 <= Len(env) /\ env[pos + 2] \in Quotes
      from == IF quoted THEN pos + 3 ELSE pos + 2
      stop == IF quoted THEN env[pos + 2] ELSE Space
      end == FirstOf({j \in from..Len(env) : env[j] = stop}, env) IN
  IF pos > Len(env) THEN {}
  ELSE IF ~Is(env, pos + 1, "=") THEN {<<>>}
  ELSE {SubSeq(env, from, end - 1)}

\* The values ParseFlag gives flags of its three types.
BoolOf(values, default) ==
  IF \E v \in values : v \in {<<"0">>, <<"no">>, <<"false">>} THEN FALSE
  ELSE IF \E v \in values : v \in {<<"1">>, <<"yes">>, <<"true">>} THEN TRUE
  ELSE default
IntOf(values, default) ==
  IF values = {} THEN default
  ELSE LET v == CHOOSE v \in values : TRUE
       IN IF v # <<>> /\ v[1] \in DOMAIN Numeral THEN Numeral[v[1]] ELSE 0
StringOf(values, default) == IF values = {} THEN default ELSE CHOOSE v \in values : TRUE

\* ParseFlagsFromString over the defaults.
FlagsFrom(look) ==
  [disable     |-> BoolOf(look["disable"], FALSE),
   verbosity   |-> IntOf(look["verbosity"], 0),
   debug       |-> BoolOf(look["debug"], FALSE),
   compression |-> BoolOf(look["compression"], TRUE),
   filename    |-> StringOf(look["filename"], Null),
   function    |-> StringOf(look["function"], Null)]

InitializeFlags(env) == FlagsFrom([name \in FlagNames |-> GetFlagValue(env, name)])

-----------------------------------------------------------------------------
\* What a user writes: settings, each a name, a value and perhaps quotes.
Setting(name, value, quote) == [name |-> name, value |-> value, quote |-> quote]
Wrapped(s) == IF s.quote = "none" THEN s.value ELSE <<s.quote>> \o s.value \o <<s.quote>>
Written(settings) ==
  FlattenSeq([i \in 1..Len(settings) |->
    (IF i = 1 THEN <<>> ELSE <<Space>>)
      \o <<settings[i].name, "=">> \o Wrapped(settings[i])])

\* A value ends where it should only if it holds no mark that ends it.
WellWritten(s) ==
  IF s.quote = "none"
    THEN Space \notin Range(s.value) /\ (s.value # <<>> => s.value[1] \notin Quotes)
    ELSE s.quote \notin Range(s.value)

Given(settings, name) ==
  LET own == {i \in 1..Len(settings) : settings[i].name = name}
  IN IF own = {} THEN {} ELSE {settings[FirstOf(own, settings)].value}

\* No value before the flag's own setting has the flag's name in it.
Unmentioned(settings, name) ==
  LET own == {i \in 1..Len(settings) : settings[i].name = name}
  IN \A i \in 1..(FirstOf(own, settings) - 1) : name \notin Range(settings[i].value)

\* The flags are those the user wrote, the first setting of a flag counting,
\* as long as no value mentions a flag that is set only later or not at all.
AsWritten(settings) ==
  (\A name \in FlagNames : Unmentioned(settings, name)) =>
    InitializeFlags(Written(settings)) =
      FlagsFrom([name \in FlagNames |-> Given(settings, name)])

-----------------------------------------------------------------------------
(* A symbol of the executable: an address, a name, and the types of its     *)
(* parameters, each one letter, or two for a pointer.  The mangled name of  *)
(* a nested function has an E before them; a C symbol is not mangled.       *)
Types == {<<"i">>, <<"d">>, <<"P", "i">>}
Letters(params) == IF params = <<>> THEN <<"v">> ELSE FlattenSeq(params)
Mangled(s) ==
  CASE s.kind = "C" -> <<s.name>>
    [] s.kind = "plain" -> <<"_Z", s.name>> \o Letters(s.params)
    [] s.kind = "nested" -> <<"_ZN", s.name, "E">> \o Letters(s.params)

\* __cxa_demangle: no result, or a name with its parameters ("bare" without).
Complete(letters) == letters = <<>> \/ letters[Len(letters)] # "P"
Demangle(text) ==
  LET skip == IF text # <<>> /\ text[1] = "_ZN" THEN 3 ELSE 2
      letters == SubSeq(text, skip + 1, Len(text)) IN
  IF \/ text = <<>> \/ text[1] \notin {"_Z", "_ZN"} \/ Len(text) < skip
     \/ (text[1] = "_ZN" /\ text[3] # "E") \/ ~Complete(letters)
    THEN {}
    ELSE {[name |-> text[2],
           args |-> IF letters = <<>> THEN <<"bare">>
                    ELSE IF letters = <<"v">> THEN <<>> ELSE letters]}

\* "kill newline", and the character before it.
Cut(line) == SubSeq(line, 1, Len(line) - 2)

\* __mema_intialize_function_monitoring over the lines of nm, started with
\* flags()->disable as disable; the pattern is the set of names fnmatch finds to
\* match it.  Nothing that matches leaves monitoring and tracing as they were.
Monitoring(symbols, pattern, disable) ==
  LET found == {s \in symbols :
                  Demangle(Cut(Append(Mangled(s), "newline"))) \cap pattern # {}}
  IN [addresses |-> {s.addr : s \in found},
      monitor_func |-> found # {}, disabled |-> disable \/ found # {}]

\* The symbols a reader of the option expects: those whose own name matches.
Matching(symbols, pattern) == {s \in symbols : Demangle(Mangled(s)) \cap pattern # {}}

\* A function option that names a function starts the program with tracing off.
OffAtStart(symbols, pattern) ==
  Matching(symbols, pattern) # {} => Monitoring(symbols, pattern, FALSE).disabled
=============================================================================
