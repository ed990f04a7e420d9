---------------------------- MODULE MacroExpansion -----------------------------
(****************************************************************************)
(* How the preprocessor of c2mir expands macros (c2mir.c: processing,          *)
(* try_param_macro_call, find_args, process_replacement).                      *)
(*                                                                          *)
(* There is no recursion: replacements are put back before the input, and       *)
(* tokens of no text mark their ends. EOR ends a replacement, BOA and EOA        *)
(* enclose an argument, which is expanded before it is substituted. A stack of    *)
(* calls says what to do at these marks, a flag of each macro, ignore_p, keeps    *)
(* it from being expanded in its own replacement.                                *)
(*                                                                          *)
(* A wrong call is reported and then made all the same, with what was read of it,  *)
(* and the mark that find_args stopped at is gone.                                *)
(*                                                                          *)
(* Directives, the operators # and ##, variable arguments and the standard        *)
(* macros are left out; white space is one token.                                *)
(****************************************************************************)
EXTENDS Integers, Sequences, SequencesExt, FiniteSetsExt

CONSTANTS
  Names,    \* the identifiers
  Signs,    \* the codes of the other tokens: parentheses, commas, white space, ...
  Programs, \* the macros and the text of each program to look at
  MaxCalls  \* bound: after an error no more calls are begun on a stack of this length

VARIABLES
  program,  \* its macros, macro_tab without ignore_p, and its source
  text,     \* what is left of the source, behind the tokens that were put back
  ignored,  \* the macros with ignore_p
  stack,    \* macro_call_stack
  buffer,   \* output_buffer
  output,   \* what was given to pre_out_token_func
  status,   \* "running", "done", "aborted": the compiler fails, or "left": see ArgOfOther
  errors,   \* an error was reported (n_errors)
  strayed   \* history: a call was lost or misread at the end of a replacement

vars == <<program, text, ignored, stack, buffer, output, status, errors, strayed>>

macros == program.macros  \* name -> macro

Sign(code) == [code |-> code, repr |-> ""]
Id(name) == [code |-> "id", repr |-> name]

Space == Sign(" ")
EOR == Sign("EOR")
BOA == Sign("BOA")
EOA == Sign("EOA")
EOU == Sign("EOU")

(* What a program is made of, and names that are no macros any more. *)
PlainTokens ==
  {Sign(code) : code \in Signs} \cup [code : {"id", "no macro"}, repr : Names]

ASSUME ProgramsAssumption ==
  /\ " " \in Signs /\ Signs \cap {"id", "EOR", "BOA", "EOA", "EOU"} = {}
  /\ \A p \in Programs :
       /\ p.source \in Seq(PlainTokens)
       /\ \A name \in DOMAIN p.macros : LET m == p.macros[name] IN
            /\ m.function \in BOOLEAN
            /\ m.body \in Seq(PlainTokens) /\ m.params \in Seq(Names)
            /\ m.function \/ m.params = <<>>

ASSUME MaxCallsAssumption == MaxCalls \in Nat

(* The macros of the program are defined, and its text is read up to the end    *)
(* of its last line.                                                            *)
Init ==
  /\ program \in Programs
  /\ text = program.source \o <<Space, EOU>>
  /\ ignored = {}
  /\ stack = <<>>
  /\ buffer = <<>>
  /\ output = <<>>
  /\ status = "running"
  /\ errors = FALSE
  /\ strayed = FALSE

Drop(s, n) == SubSeq(s, n + 1, Len(s))

(* What s has at some of its places. *)
At(s, places) == FlattenSeq([i \in DOMAIN s |-> IF i \in places THEN <<s[i]>> ELSE <<>>])

(* add_tokens does not repeat white space. *)
AddTokens(to, from) ==
  LET s == to \o from
  IN At(s, {i \in DOMAIN s : ~(i > 1 /\ s[i] = Space /\ s[i - 1] = Space)})

WithoutEnds(s) == At(s, {i \in DOMAIN s : s[i] # EOR})

(* pop_macro_call, n times. *)
Below(n) == SubSeq(stack, 1, Len(stack) - n)
Unignored(n) == ignored \ {c.macro : c \in ToSet(Drop(stack, Len(stack) - n))}

(* While a call is open the output is kept in the buffer. *)
Out(t, calls) ==
  IF calls # <<>> THEN buffer' = Append(buffer, t) /\ UNCHANGED output
  ELSE output' = output \o Append(buffer, t) /\ buffer' = <<>>

------------------------------------------------------------------------------
(* The steps of the main loop that do not begin a call.                         *)

Reads(code) == status = "running" /\ Head(text).code = code

EndOfText ==
  /\ Reads("EOU")
  /\ status' = "done"
  /\ UNCHANGED <<program, text, ignored, stack, buffer, output, errors, strayed>>

Copied ==
  /\ status = "running"
  /\ \/ Head(text).code \notin {"id", "EOR", "EOA", "EOU"}
     \/ Head(text).code = "id" /\ Head(text).repr \notin DOMAIN macros
  /\ Out(Head(text), stack)
  /\ text' = Tail(text)
  /\ UNCHANGED <<program, ignored, stack, status, errors, strayed>>

(* The mark stays with the token: it is never expanded any more.                *)
(* Mutant: it is not marked, and may be expanded with an argument again.         *)
IgnoreUnmarked ==
  /\ Reads("id") /\ Head(text).repr \in ignored
  /\ Out(Head(text), stack)
  /\ text' = Tail(text)
  /\ UNCHANGED <<program, ignored, stack, status, errors, strayed>>

Ignore ==
  /\ Reads("id") /\ Head(text).repr \in ignored
  /\ Out([Head(text) EXCEPT !.code = "no macro"], stack)
  /\ text' = Tail(text)
  /\ UNCHANGED <<program, ignored, stack, status, errors, strayed>>

FinishCall ==
  /\ Reads("EOR")
  /\ text' = Tail(text)
  /\ stack' = Below(1)
  /\ ignored' = Unignored(1)
  /\ UNCHANGED <<program, buffer, output, status, errors, strayed>>

ExpandObject ==
  /\ Reads("id") /\ Head(text).repr \in DOMAIN macros \ ignored
  /\ LET name == Head(text).repr IN
       /\ ~macros[name].function
       /\ text' = AddTokens(<<>>, macros[name].body) \o <<EOR>> \o Tail(text)
       /\ ignored' = ignored \cup {name}
       /\ stack' = Append(stack, [macro |-> name, args |-> <<>>, pos |-> 0, repl |-> <<>>,
                                  back |-> TRUE])
  /\ UNCHANGED <<program, buffer, output, status, errors, strayed>>

------------------------------------------------------------------------------
(* process_replacement: up to the next parameter, whose argument is put before   *)
(* the rest of the input, or to the end. No two parameters have one name          *)
(* (c2mir.c:2275). At the end the token behind the call is looked at: when the      *)
(* end of the text was taken for the end of the arguments there is none, and the      *)
(* assertion at c2mir.c:1528 fails.                                              *)

Resume(call, rest, calls, flags) ==
  \E m \in {macros[call.macro]} :
  \E places \in {{i \in call.pos + 1 .. Len(m.body) : Contains(m.params, m.body[i].repr)}} :
    LET upTo(n) == AddTokens(call.repl, SubSeq(m.body, call.pos + 1, n))
    IN \/ /\ places # {}
          /\ \E i \in {Min(places)} :
               /\ text' = <<BOA>> \o call.args[CHOOSE k \in DOMAIN m.params : m.params[k] = m.body[i].repr]
                                 \o <<EOA>> \o rest
               /\ stack' = Append(calls, [call EXCEPT !.pos = i, !.repl = upTo(i - 1)])
          /\ ignored' = flags
          /\ UNCHANGED status
       \/ /\ places = {} /\ rest # <<>>
          /\ text' = upTo(Len(m.body)) \o <<EOR>> \o rest
          /\ stack' = Append(calls, [call EXCEPT !.back = TRUE])
          /\ ignored' = flags \cup {call.macro}
          /\ UNCHANGED status
       \/ /\ places = {} /\ rest = <<>>
          /\ text' = rest
          /\ stack' = Append(calls, call)
          /\ ignored' = flags
          /\ status' = "aborted"

(* add_arg_tokens: the expanded argument lies in the buffer behind the last BOA. *)
FinishArg ==
  /\ Reads("EOA") /\ ~Last(stack).back
  /\ LET begin == Max({i \in DOMAIN buffer : buffer[i] = BOA})
         call == [Last(stack) EXCEPT !.repl = AddTokens(@, Drop(buffer, begin))]
     IN /\ buffer' = SubSeq(buffer, 1, begin - 1)
        /\ Resume(call, Tail(text), Below(1), ignored)
  /\ UNCHANGED <<program, output, errors, strayed>>

(* After an error the last call may be another one, whose replacement was put back   *)
(* before. That of a macro without parameters is read from its beginning, and a name  *)
(* in it is looked for in parameters that are not there (find_param of NULL).          *)
(* Otherwise its tokens are put back once more, with the codes they have by then: that   *)
(* is not followed.                                                             *)
ArgOfOther ==
  /\ Reads("EOA") /\ Last(stack).back
  /\ \E m \in {macros[Last(stack).macro]} :
       \/ /\ ~m.function /\ \E i \in DOMAIN m.body : m.body[i].code = "id"
          /\ status' = "aborted"
       \/ /\ m.function \/ \A i \in DOMAIN m.body : m.body[i].code # "id"
          /\ status' = "left"
  /\ UNCHANGED <<program, text, ignored, stack, buffer, output, errors, strayed>>

------------------------------------------------------------------------------
(* try_param_macro_call and find_args.                                          *)

(* How many replacements end here. *)
Endings(s) == Min({n \in 0 .. Len(s) - 1 : s[n + 1] # EOR})

Level(s, n) ==
  Cardinality({i \in 1 .. n : s[i].code = "("}) - Cardinality({i \in 1 .. n : s[i].code = ")"})

(* What stops the search for the end of the arguments: the ), the end of the text  *)
(* or of an argument, or two ends of replacements in a row.                        *)
Stops(s) ==
  {n \in DOMAIN s : \/ s[n].code = ")" /\ Level(s, n) = -1
                    \/ s[n] \in {EOU, BOA, EOA}
                    \/ n > 1 /\ s[n] = EOR /\ s[n - 1] = EOR}

(* The replacements that end in the arguments: at a second end in a row it stops.  *)
Ended(s, stop) == Cardinality({i \in 1 .. stop - 1 : s[i] = EOR})

(* The arguments, cut at the commas outside of inner parentheses. *)
Split(s) ==
  LET cuts == {n \in DOMAIN s : s[n].code = "," /\ Level(s, n) = 0}
      before(n) == Cardinality({c \in cuts : c < n})
  IN [i \in 1 .. Cardinality(cuts) + 1 |-> At(s, {n \in DOMAIN s \ cuts : before(n) = i - 1})]

Arguments(m, s) ==
  IF m.params = <<>> /\ s \in {<<>>, <<Space>>} THEN <<>> ELSE Split(s)

(* As many as there are parameters: the others are dropped, or empty.             *)
Fitted(args, n) == [i \in 1 .. n |-> IF i <= Len(args) THEN args[i] ELSE <<>>]

(* Where a ( makes a call of the name that was read: behind the ends of           *)
(* replacements and then one white space.                                        *)
Behind == Drop(text, 1 + Endings(Tail(text)))
Opening(s) == IF Head(s) = Space THEN 2 ELSE 1

(* History: find_args gives up at two ends of replacements in a row, and takes the *)
(* names of macros out of a replacement that ends in the arguments: its own macro    *)
(* is not ignored any more when they are expanded.                                   *)
Misread(s) ==
  \E i \in DOMAIN s : /\ s[i] = EOR
                      /\ \E j \in 1 .. i : \/ j = i - 1 /\ s[j] = EOR
                                           \/ s[j].code = "id" /\ s[j].repr \in DOMAIN macros

(* ... and a name is no call when there is white space before such an end and the (  *)
Lost(s) == \E i \in DOMAIN s : s[i].code = "(" /\ \A j \in 1 .. i - 1 : s[j] \in {Space, EOR}

ReadsFunction ==
  /\ Reads("id")
  /\ Head(text).repr \in DOMAIN macros \ ignored
  /\ macros[Head(text).repr].function

(* The replacements that ended before the ( are finished all the same.           *)
(* Mutant: the name is read again. *)
NoCallReadAgain ==
  /\ ReadsFunction
  /\ \E s \in {Behind} :
       /\ s[Opening(s)].code # "("
       /\ text' = <<Head(text)>> \o s
       /\ stack' = Below(Endings(Tail(text)))
       /\ ignored' = Unignored(Endings(Tail(text)))
       /\ strayed' = (strayed \/ Lost(s))
  /\ UNCHANGED <<program, status, errors, buffer, output>>

NoCall ==
  /\ ReadsFunction
  /\ \E s \in {Behind} :
       /\ s[Opening(s)].code # "("
       /\ text' = s
       /\ stack' = Below(Endings(Tail(text)))
       /\ ignored' = Unignored(Endings(Tail(text)))
       /\ Out(Head(text), stack')
       /\ strayed' = (strayed \/ Lost(s))
  /\ UNCHANGED <<program, status, errors>>

(* The call is pushed behind those that ended before it and in its arguments, and  *)
(* its replacement is begun, also when it is not finished or has too many or too     *)
(* few arguments.                                                              *)
Begin(name, given, right, rest, ended) ==
  /\ errors' = (errors \/ ~right)
  /\ errors => Len(stack) - ended < MaxCalls
  /\ Resume([macro |-> name, args |-> Fitted(given, Len(macros[name].params)), pos |-> 0,
             repl |-> <<>>, back |-> FALSE],
            rest, Below(ended), Unignored(ended))
  /\ UNCHANGED <<program, buffer, output>>

(* Mutant: the calls that end in the arguments stay open. *)
BeginCallKeepsOpen ==
  /\ ReadsFunction
  /\ \E s \in {Behind} :
       /\ s[Opening(s)].code = "("
       /\ \E inParens \in {Drop(s, Opening(s))} :
          \E stop \in {Min(Stops(inParens))} :
          \E m \in {macros[Head(text).repr]} :
          \E plain \in {WithoutEnds(SubSeq(inParens, 1, stop - 1))} :
          \E given \in {Arguments(m, plain)} :
            /\ Begin(Head(text).repr, given,
                     inParens[stop].code = ")" /\ Len(given) = Len(m.params),
                     Drop(inParens, stop), Endings(Tail(text)))
            /\ strayed' = (strayed \/ Misread(SubSeq(inParens, 1, stop)))

BeginCall ==
  /\ ReadsFunction
  /\ \E s \in {Behind} :
       /\ s[Opening(s)].code = "("
       /\ \E inParens \in {Drop(s, Opening(s))} :
          \E stop \in {Min(Stops(inParens))} :
          \E m \in {macros[Head(text).repr]} :
          \E plain \in {WithoutEnds(SubSeq(inParens, 1, stop - 1))} :
          \E given \in {Arguments(m, plain)} :
            /\ Begin(Head(text).repr, given,
                     inParens[stop].code = ")" /\ Len(given) = Len(m.params),
                     Drop(inParens, stop), Endings(Tail(text)) + Ended(inParens, stop))
            /\ strayed' = (strayed \/ Misread(SubSeq(inParens, 1, stop)))

Next ==
  \/ EndOfText
  \/ Copied
  \/ Ignore
  \/ FinishCall
  \/ ExpandObject
  \/ FinishArg
  \/ ArgOfOther
  \/ NoCall
  \/ BeginCall

Spec == Init /\ [][Next]_vars /\ WF_vars(Next)

------------------------------------------------------------------------------
(* The marks in the text and the calls on the stack fit together: the marks that  *)
(* are still to come end the calls from the top of the stack down, EOR a           *)
(* replacement and EOA an argument, and the ignored macros are those whose          *)
(* replacement is open, each of them once. So no flag stays set behind its           *)
(* replacement, also when the call was ended while a ( or ) was looked for, and       *)
(* replacements nest no deeper than there are macros. An argument that ends has its     *)
(* beginning in the buffer (the assertion at c2mir.c:2671). After an error, when a        *)
(* mark was taken for the end of a call, no more than this: each mark still has a call       *)
(* and each end of an argument a beginning, so that no call is taken from an empty stack.      *)
Count(s, t) == Cardinality({i \in DOMAIN s : s[i] = t})
CallOf(i) == stack[Cardinality({j \in i .. Len(text) : text[j] \in {EOR, EOA}})]

CallsMirrored ==
  /\ Count(text, EOR) + Count(text, EOA) <= Len(stack)
  /\ Count(text, EOA) <= Count(buffer, BOA) + Count(text, BOA)
  /\ ~errors => /\ Count(text, EOR) + Count(text, EOA) = Len(stack)
                /\ ignored = {CallOf(i).macro : i \in {j \in DOMAIN text : text[j] = EOR}}
                /\ Cardinality(ignored) = Count(text, EOR)
                /\ Count(text, EOA) = Count(buffer, BOA) + Count(text, BOA)

(* Every text is read to its end or to a call that is reported as wrong, also with  *)
(* macros that name themselves or each other: a macro is expanded in no replacement   *)
(* of its own, and what was once left alone is never expanded later. Behind such a      *)
(* call nothing is promised: the argument whose end was taken is read for ever in some    *)
(* programs (README, section 6).                                                *)
Ends == <>(status = "done" \/ errors)
==============================================================================
