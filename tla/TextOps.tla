------------------------------ MODULE TextOps ------------------------------
(***************************************************************************)
(* Functions on text: string_split, string_split_delim_string and          *)
(* string_convert_index_to_line_offset of src/string/string_utils.cpp,     *)
(* compile_parse_shader_errors of src/compile/compile_messages.cpp, the    *)
(* line numbers that gl_compile_shader gives its messages, and             *)
(* file_get_relative_path of src/file/file.cpp.  A text is a sequence of   *)
(* characters, an error message of a driver a sequence of lines of a few   *)
(* kinds, a path a sequence of names.  One state is one call.              *)
(***************************************************************************)
EXTENDS Integers, Sequences, FiniteSets, SequencesExt

CONSTANTS
    MaxText,      \* bound: length of a text
    MaxLines      \* bound: lines of an error message, lines of a fragment

ASSUME TextAssumption == MaxText \in Nat /\ MaxLines \in Nat

VARIABLE call    \* the function that was called, its arguments and result

TextInit == call = [fn |-> "none"]

(* std::string::find_first_of and find_first_not_of, from 1; 0 is npos.    *)
FindFirst(text, S, from) ==
    LET found == {i \in from..Len(text) : from > 0 /\ text[i] \in S}
    IN  IF found = {} THEN 0 ELSE CHOOSE i \in found : \A j \in found : i <= j

Chars == {"a", "-", "\r", "\n"}

-----------------------------------------------------------------------------
(* string_split.                                                           *)
Split(text, delims) ==
    LET rest[start \in 0..Len(text)] ==
          LET end == FindFirst(text, delims, start) IN
          IF start = 0 THEN <<>>
          ELSE IF end = 0 THEN <<SubSeq(text, start, Len(text))>>
          ELSE <<SubSeq(text, start, end - 1)>> \o rest[FindFirst(text, Chars \ delims, end)]
    IN  rest[FindFirst(text, Chars \ delims, 1)]

(* std::string::find, of a text that is not empty.                         *)
FindText(text, sought, from) ==
    LET found == {i \in from..(Len(text) - Len(sought) + 1) :
                    SubSeq(text, i, i + Len(sought) - 1) = sought}
    IN  IF found = {} THEN 0 ELSE CHOOSE i \in found : \A j \in found : i <= j

(* string_split_delim_string.  After a delimiter it goes on one character  *)
(* further, however long the delimiter is.                                 *)
SplitDelim(text, delim) ==
    LET rest[previous \in 1..(Len(text) + 1)] ==
          LET current == FindText(text, delim, previous) IN
          IF current = 0 THEN <<SubSeq(text, previous, Len(text))>>
          ELSE <<SubSeq(text, previous, current - 1)>> \o rest[current + 1]
    IN  rest[1]

(* Where the line end that begins at character at is over: "\r\n" is one.  *)
PastLineEnd(text, at) ==
    IF text[at] = "\r" /\ at < Len(text) /\ text[at + 1] = "\n" THEN at + 2 ELSE at + 1

(* string_convert_index_to_line_offset, index from 0; the offset is an     *)
(* unsigned number (of 16 bits here, 32 in the code).  The walk returns    *)
(* behind the first line end that the index is not in front of.            *)
LineOffset(text, index) ==
    LET walk[at \in 0..Len(text), line \in 0..Len(text), first \in 0..Len(text)] ==
          IF at = Len(text) \/ (first <= index /\ index <= at)
          THEN <<line, (index - first) % 2^16>>
          ELSE IF text[at + 1] \in {"\r", "\n"}
          THEN LET next == PastLineEnd(text, at + 1) - 1
               IN  IF index >= next THEN <<line + 1, index - next>>
                   ELSE walk[next, line + 1, next]
          ELSE walk[at + 1, line, first]
    IN  walk[0, 0, 0]

-----------------------------------------------------------------------------
(* Lines of a message: "pre" has no bracket, "open" a bracket that is not  *)
(* closed, "words" no number inside the brackets, "ok" the number line.    *)
Kinds == {"pre", "open", "words", "ok"}

(* One line of compile_parse_shader_errors.  unknown holds the preamble,   *)
(* lines without a bracket, for the next message that gets as far as using *)
(* it.  An exception makes the message a failure, after the preamble was   *)
(* used or before.                                                         *)
ParseLine(acc, line) ==
    LET n == acc.at + 1
        message(pre, failed) ==
            [raw |-> n, pre |-> pre, failed |-> failed,
             line |-> IF failed \/ line.number = 0 THEN 0 ELSE line.number - 1]
        with(msgs, unknown) == [at |-> n, messages |-> acc.messages \o msgs,
                                unknown |-> unknown]
    IN  CASE line.kind = "pre" -> with(<<>>, Append(acc.unknown, n))
          [] line.kind = "open" -> with(<<message(<<>>, TRUE)>>, acc.unknown)
          [] line.kind = "words" -> with(<<message(<<>>, TRUE)>>, <<>>)
          [] line.kind = "ok" -> with(<<message(acc.unknown, FALSE)>>, <<>>)

(* Mutant: a message is made up only when there was no line at all.        *)
ParseErrorsSilent(lines) ==
    FoldLeft(ParseLine, [at |-> 0, messages |-> <<>>, unknown |-> <<>>], lines).messages

(* With no message, one is made up from the preamble or the whole text.    *)
ParseErrors(lines) ==
    LET end == FoldLeft(ParseLine, [at |-> 0, messages |-> <<>>, unknown |-> <<>>], lines)
    IN  IF end.messages # <<>> THEN end.messages
        ELSE <<[raw |-> 0, pre |-> end.unknown, failed |-> FALSE, line |-> 0]>>

(* The loop of gl_compile_shader over the newlines of each fragment; the   *)
(* line and the fragment (1 is the first) stay when none has the line.     *)
FixUp(line, counts) ==
    LET try[f \in 1..(Len(counts) + 1), last \in Nat] ==
          IF f > Len(counts) THEN [fragment |-> 1, line |-> line]
          ELSE IF line < counts[f] + last THEN [fragment |-> f, line |-> line - last]
          ELSE try[f + 1, last + counts[f]]
    IN  try[1, 0]

(* How many names the loop over both paths passes.                         *)
SharedNames(from, to) ==
    Cardinality({k \in DOMAIN from \cap DOMAIN to : \A i \in 1..k : from[i] = to[i]})

(* file_get_relative_path: ".." for what is left of from, then the rest of *)
(* to.                                                                     *)
RelativePath(from, to) ==
    LET shared == SharedNames(from, to)
    IN  [i \in 1..(Len(from) - shared) |-> ".."] \o SubSeq(to, shared + 1, Len(to))

-----------------------------------------------------------------------------
CallSplit ==
    \E text \in BoundedSeq(Chars, MaxText) :
        \/ call' = [fn |-> "split", text |-> text, out |-> Split(text, {"-", "\n"})]
        \/ \E delim \in {<<"-">>, <<"-", "a">>, <<"-", "-">>} :
              call' = [fn |-> "fields", text |-> text, delim |-> delim,
                       out |-> SplitDelim(text, delim)]

CallLineOffset ==
    \E text \in BoundedSeq(Chars \ {"-"}, MaxText) : \E index \in 0..Len(text) :
        call' = [fn |-> "offset", text |-> text, index |-> index,
                 out |-> LineOffset(text, index)]

(* The driver numbers the lines of all fragments together, from 1.         *)
CallParse ==
    \E kinds \in BoundedSeq(Kinds, MaxLines), number \in 0..2 :
        call' = [fn |-> "parse", kinds |-> kinds,
                 out |-> ParseErrors([i \in DOMAIN kinds |->
                                         [kind |-> kinds[i], number |-> number]])]

CallFixUp ==
    \E counts \in BoundedSeq(0..2, MaxLines) : \E line \in 0..(2 * MaxLines) :
        call' = [fn |-> "fixup", counts |-> counts, line |-> line,
                 out |-> FixUp(line, counts)]

CallRelative ==
    \E from, to \in BoundedSeq({"a", "b"}, MaxLines) :
        call' = [fn |-> "relative", from |-> from, to |-> to, out |-> RelativePath(from, to)]

TextNext ==
    /\ call.fn = "none"
    /\ CallSplit \/ CallLineOffset \/ CallParse \/ CallFixUp \/ CallRelative

-----------------------------------------------------------------------------
(* string_split returns the longest stretches without a delimiter, each    *)
(* once and in order.                                                      *)
SplitIsStretches ==
    call.fn = "split" =>
        LET text == call.text
            free(i, j) == \A k \in i..j : text[k] \notin {"-", "\n"}
            stretches == {p \in (1..Len(text)) \X (1..Len(text)) :
                            /\ p[1] <= p[2] /\ free(p[1], p[2])
                            /\ p[1] = 1 \/ ~free(p[1] - 1, p[2])
                            /\ p[2] = Len(text) \/ ~free(p[1], p[2] + 1)}
        IN  call.out = [k \in 1..Cardinality(stretches) |->
                LET p == CHOOSE p \in stretches :
                            Cardinality({q \in stretches : q[1] < p[1]}) = k - 1
                IN  SubSeq(text, p[1], p[2])]

(* string_split_delim_string returns the text between its delimiters,      *)
(* empty fields at the ends included: no field has a delimiter in it, and  *)
(* the fields with the first character of a delimiter between every two of *)
(* them are the text again.  For a delimiter of one character this is the  *)
(* inverse of joining; the rest of a longer one stays in the next field.   *)
FieldsJoin ==
    call.fn = "fields" =>
        /\ call.out # <<>>
        /\ \A i \in DOMAIN call.out : ~ \E before, after \in 0..Len(call.out[i]) :
              /\ before + Len(call.delim) + after = Len(call.out[i])
              /\ SubSeq(call.out[i], before + 1, before + Len(call.delim)) = call.delim
        /\ FoldLeft(LAMBDA joined, field : joined \o <<call.delim[1]>> \o field,
                    call.out[1], Tail(call.out)) = call.text

(* "Given an index into a string, count the newlines and return (line,     *)
(* lineOffset)" (string_utils.cpp:379): right for an index in the first    *)
(* two lines that is not between "\r" and "\n".  Further on it is not: the *)
(* function returns at the first line end.                                 *)
OffsetOfIndex ==
    call.fn = "offset" =>
        LET text == call.text
            second(i) == i > 1 /\ text[i] = "\n" /\ text[i - 1] = "\r"
            starts == {0} \cup {PastLineEnd(text, i) - 1 :
                         i \in {j \in 1..Len(text) : text[j] \in {"\r", "\n"} /\ ~second(j)}}
            before == {s \in starts : s <= call.index}
        IN  \/ Cardinality(before) > 2
            \/ call.index < Len(text) /\ second(call.index + 1)
            \/ call.out = <<Cardinality(before) - 1,
                            call.index - (CHOOSE s \in before : \A r \in before : r <= s)>>

(* No line of the compiler's output is dropped, and none is told twice: it *)
(* has a message of its own or is in the preamble of one.  Only preamble   *)
(* can get lost, where the message that would take it fails to parse, or   *)
(* where none follows and there are other messages.                        *)
LinesReported ==
    call.fn = "parse" =>
        LET kinds == call.kinds
            all == FoldLeft(LAMBDA s, m : s \o m.pre \o IF m.raw = 0 THEN <<>> ELSE <<m.raw>>,
                            <<>>, call.out)
            takers(i) == {j \in i..Len(kinds) : kinds[j] \in {"words", "ok"}}
            lost(i) == /\ kinds[i] = "pre"
                       /\ IF takers(i) = {} THEN Range(kinds) # {"pre"}
                          ELSE \E j \in takers(i) : /\ kinds[j] = "words"
                                                    /\ \A k \in takers(i) : j <= k
        IN  /\ call.out # <<>>
            /\ \A i \in DOMAIN kinds :
                  Cardinality({k \in DOMAIN all : all[k] = i}) = IF lost(i) THEN 0 ELSE 1

(* The fragment and the line in it name the line that the driver meant,    *)
(* for every line that a newline ends.                                     *)
LineOfFragment ==
    call.fn = "fixup" =>
        LET before(f) == FoldLeft(LAMBDA s, c : s + c, 0, SubSeq(call.counts, 1, f - 1))
            f == call.out.fragment
        IN  call.line < before(Len(call.counts) + 1) =>
                /\ before(f) + call.out.line = call.line
                /\ call.out.line \in 0..(call.counts[f] - 1)

(* Following the relative path from the directory from leads to to, and no *)
(* shorter path does.                                                      *)
RelativeLeads ==
    call.fn = "relative" =>
        LET follow(at, name) ==
                IF name = ".." THEN SubSeq(at, 1, Len(at) - 1) ELSE Append(at, name)
            ups(path) == Cardinality({i \in DOMAIN path : path[i] = ".."})
        IN  /\ FoldLeft(follow, call.from, call.out) = call.to
            /\ \A n \in 0..Len(call.from) :
                  n <= Len(call.to) /\ SubSeq(call.from, 1, n) = SubSeq(call.to, 1, n)
                      => ups(call.out) <= Len(call.from) - n

(* Every call returns what is said of its function above.                  *)
TextRight ==
    /\ SplitIsStretches /\ FieldsJoin /\ OffsetOfIndex
    /\ LinesReported /\ LineOfFragment
    /\ RelativeLeads
=============================================================================
