--------------------------- MODULE SessionMining ---------------------------
(***************************************************************************)
(* The prompts of the K2 drafter's regeneration.                           *)
(*                                                                         *)
(* extract_claude_sessions.py reads the transcripts of coding sessions     *)
(* line by line into messages and the schemas of the tools they call, and  *)
(* cuts one sample per assistant turn: the context before it, trimmed from *)
(* the front to MaxChars. build_regen_prompts.py joins the samples and     *)
(* public first turns into the input of the regeneration. A text is its    *)
(* size once secrets and harness noise have been taken out of it.          *)
(***************************************************************************)
EXTENDS Integers, Sequences, SequencesExt, FiniteSetsExt, Functions

CONSTANTS
  Sessions,     \* what the glob may find: sequences of [name, lines]
  MaxChars,     \* of a context
  ToolMax,      \* of a tool result
  Marker,       \* size of the line that says a result was cut
  Public,       \* rows of the public set: [id, first], first = 0 when no first user turn has text
  PublicN       \* how many of them are taken

VARIABLES
  sessions,     \* the files found, sorted
  file, line,   \* position in them
  msgs,         \* messages of the present file
  tools,        \* schemas of its tools: name -> set of <<argument, type>>
  rows,         \* extracted.jsonl
  prompts       \* regen-input.jsonl, NotBuilt before build_regen_prompts.py

mine_vars == <<sessions, file, line, msgs, tools, rows, prompts>>

NotBuilt == << <<>> >>
NoTools  == [n \in {} |-> {}]

MineInit ==
  /\ sessions \in Sessions /\ file = 1 /\ line = 1
  /\ msgs = <<>> /\ tools = NoTools /\ rows = <<>> /\ prompts = NotBuilt

----------------------------------------------------------------------------
(* convert_file                                                            *)

Reading == file <= Len(sessions) /\ line <= Len(sessions[file].lines)
Here    == sessions[file].lines[line]

NextLine == line' = line + 1 /\ UNCHANGED <<sessions, file, rows, prompts>>

\* Nothing is left of a turn that is all harness noise.
NoText(l) == l.size = 0

\* No JSON, a record of another type or of a sidechain, a meta turn of the
\* harness, or a user turn without text.
Unused(l) == l.type = "other" \/ (l.type = "user" /\ (l.meta \/ NoText(l)))

IsTurn(l) == l.type = "user" /\ ~Unused(l)

\* What the coding agent writes: the results of a tool come before its user's
\* next turn, as the API it talks to demands.
IsSeq(s)     == s \in Seq({s[i] : i \in DOMAIN s})
Calls(l, id) == l.type = "assistant" /\ \E n \in DOMAIN l.calls : l.calls[n].id = id

ASSUME TranscriptAssumption ==
  \A found \in Sessions : \A f \in DOMAIN found :
    LET lines == found[f].lines IN
    /\ IsSeq(found) /\ IsSeq(lines)
    /\ \A i \in DOMAIN lines :
         /\ lines[i].type \in {"other", "user", "results", "assistant"}
         /\ lines[i].type = "assistant" => IsSeq(lines[i].calls)
         /\ lines[i].type = "results" => IsSeq(lines[i].results)
         /\ lines[i].type = "results" => \A r \in DOMAIN lines[i].results :
              \E k \in 1 .. i - 1 : /\ Calls(lines[k], lines[i].results[r].call)
                                   /\ \A j \in k + 1 .. i - 1 : ~IsTurn(lines[j])

SkipLine == Reading /\ Unused(Here) /\ NextLine /\ UNCHANGED <<msgs, tools>>

UserLine ==
  /\ Reading /\ IsTurn(Here)
  /\ msgs' = Append(msgs, [role |-> "user", size |-> Here.size])
  /\ NextLine /\ UNCHANGED tools

Cut(size) == IF size > ToolMax THEN ToolMax + Marker ELSE size

\* A user record with tool results: its texts are dropped.
ResultLine ==
  /\ Reading /\ Here.type = "results"
  /\ msgs' = msgs \o [i \in DOMAIN Here.results |->
       [role |-> "tool", size |-> Cut(Here.results[i].size), call |-> Here.results[i].call]]
  /\ NextLine /\ UNCHANGED tools

\* merge_schema: an argument seen again takes its latest type.
Merged(schema, args) == {p \in schema : \A a \in args : a[1] # p[1]} \cup args

\* The arguments of a tool in a turn's calls, each as in the last that has it.
Latest(calls, name) ==
  LET of == {i \in DOMAIN calls : calls[i].name = name}
  IN  UNION {{a \in calls[i].args : \A k \in of : k > i => \A b \in calls[k].args : b[1] # a[1]} : i \in of}

Learn(known, calls) ==
  [n \in DOMAIN known \cup {calls[i].name : i \in DOMAIN calls} |->
     Merged(IF n \in DOMAIN known THEN known[n] ELSE {}, Latest(calls, n))]

\* Streamed blocks arrive as separate lines: one turn of the assistant.
Joined(ms, entry) ==
  IF ms # <<>> /\ Last(ms).role = "assistant"
  THEN Append(Front(ms), [role |-> "assistant", size |-> Last(ms).size + entry.size,
                          calls |-> Last(ms).calls \o entry.calls])
  ELSE Append(ms, entry)

AssistantLine ==
  /\ Reading /\ Here.type = "assistant"
  /\ msgs' = Joined(msgs, [role |-> "assistant", size |-> Here.size, calls |-> Here.calls])
  /\ tools' = Learn(tools, Here.calls)
  /\ NextLine

----------------------------------------------------------------------------
(* windows and main                                                        *)

Chars(ms) == FoldLeft(LAMBDA n, x : n + x.size, 0, ms)
From(ms, k) == SubSeq(ms, k, Len(ms))

\* Mutant: trimmed by size only.
FirstFit(ms) == From(ms, Min({k \in 1 .. Len(ms) + 1 : Chars(From(ms, k)) <= MaxChars}))

\* The longest end that fits, from its first user turn on.
Trimmed(ms) ==
  LET fits == {k \in 1 .. Len(ms) : Chars(From(ms, k)) <= MaxChars /\ ms[k].role = "user"}
  IN  IF fits = {} THEN <<>> ELSE From(ms, Min(fits))

Sampled(i) ==
  /\ msgs[i].role = "assistant" /\ i > 1 /\ msgs[i - 1].role \in {"user", "tool"}
  /\ Trimmed(SubSeq(msgs, 1, i - 1)) # <<>>

Sample(sid, i) ==
  [id |-> <<sid, i - 1>>, conversations |-> Trimmed(SubSeq(msgs, 1, i - 1)), tools |-> tools]

Windows(sid) ==
  FlattenSeq([i \in DOMAIN msgs |-> IF Sampled(i) THEN <<Sample(sid, i)>> ELSE <<>>])

\* A file's name is its first eight characters and the rest of it.
SessionId(name) == name[1]

Short == Len(msgs) < 3

EndFile ==
  /\ file <= Len(sessions) /\ ~Reading
  /\ rows' = IF Short THEN rows ELSE rows \o Windows(SessionId(sessions[file].name))
  /\ file' = file + 1 /\ line' = 1 /\ msgs' = <<>> /\ tools' = NoTools
  /\ UNCHANGED <<sessions, prompts>>

----------------------------------------------------------------------------
(* build_regen_prompts.py                                                  *)

PublicRows ==
  LET taken == SelectSeq(Public, LAMBDA r : r.first > 0)
  IN  [n \in 1 .. Min({PublicN, Len(taken)}) |->
        [id |-> <<"pub", taken[n].id>>, tools |-> NoTools,
         conversations |-> << [role |-> "user", size |-> taken[n].first] >>]]

BuildPrompts ==
  /\ file > Len(sessions) /\ prompts = NotBuilt
  /\ prompts' = rows \o PublicRows
  /\ UNCHANGED <<sessions, file, line, msgs, tools, rows>>

MineNext == SkipLine \/ UserLine \/ ResultLine \/ AssistantLine \/ EndFile \/ BuildPrompts

MineSpec == MineInit /\ [][MineNext]_mine_vars

----------------------------------------------------------------------------
(* Property.                                                               *)

\* A context the target can be asked to go on from, however the transcript was
\* streamed and wherever it was trimmed: it opens with the user and ends before
\* the assistant, no two of its turns are the assistant's in a row, it fits,
\* and each tool result in it follows its call, whose tool has a schema that
\* names every argument.
Askable(r) ==
  LET c == r.conversations IN
  /\ c # <<>> /\ c[1].role = "user" /\ Last(c).role \in {"user", "tool"} /\ Chars(c) <= MaxChars
  /\ \A i \in 1 .. Len(c) - 1 : ~(c[i].role = "assistant" /\ c[i + 1].role = "assistant")
  /\ \A i \in DOMAIN c : c[i].role = "tool" =>
       \E k \in 1 .. i - 1 : c[k].role = "assistant" /\
         \E n \in DOMAIN c[k].calls : c[k].calls[n].id = c[i].call
  /\ \A i \in DOMAIN c : c[i].role = "assistant" =>
       \A n \in DOMAIN c[i].calls :
         LET call == c[i].calls[n] IN
         /\ call.name \in DOMAIN r.tools
         /\ \A a \in call.args : \E p \in r.tools[call.name] : p[1] = a[1]
ContextsAreWhole == \A n \in DOMAIN rows : Askable(rows[n])
=============================================================================
