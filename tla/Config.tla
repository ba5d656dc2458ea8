------------------------------- MODULE Config -------------------------------
(***************************************************************************)
(* The configuration of the server (pkg/controller/config.go): the values  *)
(* in force, the texts that were loaded or last rewritten, and the file.   *)
(* CONFIG SET changes what is in force, CONFIG REWRITE saves it, READONLY  *)
(* and FOLLOW save their own setting and leave the properties as they were *)
(* saved.  A restart loads the file.                                       *)
(*                                                                         *)
(* A text is empty, a word, or a number with a unit.  Sizes are integers   *)
(* of some width, and a kilobyte is some number of bytes.                  *)
(***************************************************************************)
EXTENDS Integers, FiniteSets

CONSTANTS ConfigTexts,          \* what CONFIG SET may be given
          WordSize,             \* 2^64 in the code
          Kilo,                 \* 1024 in the code
          defaultKeepAlive,     \* 300 in the code
          MaxConfigOps          \* bound on the commands

VARIABLES inForce,      \* the properties in force
          texts,        \* their texts as loaded or rewritten (the fields ending in P)
          own,          \* follow_host and read_only
          file, cstatus,
          promise,      \* what the next start must find
          fresh,        \* nothing was set since the start
          torn,         \* the server stopped while the file was being written
          configOps

configVars == <<inForce, texts, own, file, cstatus, promise, fresh, torn, configOps>>

validProperties == {"requirepass", "leaderauth", "protected-mode", "maxmemory", "autogc", "keepalive"}
Empty == [t |-> "empty"]
Word(w) == [t |-> "word", w |-> w]
Num(n, unit) == [t |-> "num", n |-> n, unit |-> unit]
Failed == [ok |-> FALSE]
Value(v) == [ok |-> TRUE, v |-> v]

(***************************************************************************)
(* Conversions                                                             *)
(***************************************************************************)
ToInt(n) == IF n % WordSize < WordSize \div 2 THEN n % WordSize ELSE (n % WordSize) - WordSize
ToUint(n) == n % WordSize
UnitOf == [b |-> 1, kb |-> Kilo, mb |-> Kilo * Kilo, gb |-> Kilo * Kilo * Kilo]

parseMemSize(s) ==
    CASE s.t = "empty" -> Value(0)
      [] s.t = "num" -> Value(ToInt(s.n * UnitOf[s.unit]))
      [] OTHER -> Failed

formatMemSize(sz) ==
    IF sz <= 0 THEN Empty
    ELSE LET u == CASE sz < UnitOf["kb"] -> "b" [] sz < UnitOf["mb"] -> "kb"
                    [] sz < UnitOf["gb"] -> "mb" [] OTHER -> "gb"
         IN Num(sz \div UnitOf[u], u)

ParseUint(s, empty) ==
    CASE s.t = "empty" -> Value(empty)
      [] s.t = "num" /\ s.unit = "b" -> Value(ToUint(s.n))
      [] OTHER -> Failed

\* The value that a text stands for.
setProperty(name, s, fromLoad) ==
    CASE name = "protected-mode" ->
            IF s \in {Word("yes"), Word("no")} THEN Value(s.w)
            ELSE IF s = Empty /\ fromLoad THEN Value("yes") ELSE Failed
      [] name = "maxmemory" -> parseMemSize(s)
      [] name = "autogc" -> ParseUint(s, 0)
      [] name = "keepalive" -> ParseUint(s, defaultKeepAlive)
      [] OTHER -> Value(s)

\* The text that write saves for a value; defaults are saved as nothing.
TextOf(name, v) ==
    CASE name = "protected-mode" -> IF v = "yes" THEN Empty ELSE Word(v)
      [] name = "maxmemory" -> formatMemSize(v)
      [] name = "autogc" -> IF v = 0 THEN Empty ELSE Num(v, "b")
      [] name = "keepalive" -> IF v = defaultKeepAlive THEN Empty ELSE Num(v, "b")
      [] OTHER -> v

(***************************************************************************)
(* The file                                                                *)
(***************************************************************************)
NoTexts == [p \in validProperties |-> Empty]
Alone == [host |-> FALSE, readOnly |-> FALSE]
Contents(ts, o) == [texts |-> ts, own |-> o]
EmptyFile == Contents(NoTexts, Alone)

Loaded(f) == [p \in validProperties |-> setProperty(p, f.texts[p], TRUE)]
Values(r) == [p \in validProperties |-> r[p].v]

\* loadConfig, which ends with write(false).
Load(f) ==
    /\ own' = f.own /\ texts' = f.texts /\ file' = f /\ fresh' = TRUE
    /\ IF \E p \in validProperties : ~Loaded(f)[p].ok
       THEN cstatus' = "refused" /\ UNCHANGED inForce
       ELSE cstatus' = "up" /\ inForce' = Values(Loaded(f))

\* A server that starts without a file.
ConfigInit ==
    /\ texts = NoTexts /\ own = Alone /\ file = EmptyFile
    /\ inForce = [p \in validProperties |-> setProperty(p, Empty, TRUE).v]
    /\ cstatus = "up" /\ promise = Contents(inForce, Alone) /\ fresh = TRUE
    /\ torn = FALSE /\ configOps = 0

Operation == cstatus = "up" /\ configOps < MaxConfigOps /\ configOps' = configOps + 1

cmdConfigSet(name, s) ==
    /\ Operation
    /\ LET r == setProperty(name, s, FALSE) IN
       /\ r.ok
       /\ inForce' = [inForce EXCEPT ![name] = r.v]
    /\ fresh' = FALSE
    /\ UNCHANGED <<texts, own, file, cstatus, promise, torn>>

\* The text of every property anew.
Rewritten == [p \in validProperties |-> TextOf(p, inForce[p])]

\* The largest amount that is a whole number of its unit; none if not positive.
Rounded(sz) ==
    IF sz <= 0 THEN 0
    ELSE CHOOSE v \in 1..sz : /\ \E u \in DOMAIN UnitOf : /\ UnitOf[u] <= sz
                                                          /\ \A w \in DOMAIN UnitOf : UnitOf[w] <= sz => UnitOf[w] <= UnitOf[u]
                                                          /\ v % UnitOf[u] = 0 /\ sz - v < UnitOf[u]

\* Mutant: READONLY and FOLLOW save the properties in force with their own.
SavedTextsAll(props) == Rewritten
\* Which texts write(props) saves.
SavedTexts(props) == IF props THEN Rewritten ELSE texts

\* write: WriteFile empties the file first.
WriteBegins(props) ==
    /\ texts' = SavedTexts(props)
    /\ cstatus' = "writing" /\ file' = EmptyFile
    /\ promise' = Contents(IF props THEN [inForce EXCEPT !["maxmemory"] = Rounded(@)] ELSE promise.texts, own')

cmdConfigRewrite ==
    /\ Operation
    /\ UNCHANGED own /\ WriteBegins(TRUE)
    /\ UNCHANGED <<inForce, fresh, torn>>

\* READONLY when it changes something; FOLLOW always writes.
WriteOwn ==
    /\ Operation
    /\ \/ own' = [own EXCEPT !.readOnly = ~@]
       \/ \E host \in BOOLEAN : own' = [own EXCEPT !.host = host]
    /\ WriteBegins(FALSE)
    /\ UNCHANGED <<inForce, fresh, torn>>

WriteEnds ==
    /\ cstatus = "writing"
    /\ file' = Contents(texts, own) /\ cstatus' = "up"
    /\ UNCHANGED <<inForce, texts, own, promise, fresh, torn, configOps>>

ConfigRestart ==
    /\ cstatus \in {"up", "writing"} /\ configOps < MaxConfigOps
    /\ configOps' = configOps + 1
    /\ torn' = (torn \/ cstatus = "writing")
    /\ Load(file)
    /\ UNCHANGED promise

ConfigNext ==
    \/ \E name \in validProperties, s \in ConfigTexts : cmdConfigSet(name, s)
    \/ cmdConfigRewrite \/ WriteOwn \/ WriteEnds \/ ConfigRestart

(***************************************************************************)
(* Properties                                                              *)
(***************************************************************************)
\* A start finds what was in force at the last CONFIG REWRITE and the last
\* READONLY and FOLLOW: a CONFIG SET that was not rewritten does not slip into
\* the file with a READONLY, nor is a rewritten one lost by it.  A size is
\* rounded down to whole units, and one that overflowed to a negative number is
\* saved as none.  After a stop while the file was being written the server
\* still starts, with less.
StartsAsSaved ==
    /\ cstatus # "refused"
    /\ cstatus = "up" /\ fresh /\ ~torn => inForce = promise.texts /\ own = promise.own
=============================================================================
