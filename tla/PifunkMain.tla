----------------------------- MODULE PifunkMain -----------------------------
(***************************************************************************)
(* main () of pifunk.c: its greeting, the two getopt calls in front of the *)
(* argument loop, the loop itself with its fall-through switch, and the    *)
(* way out of the program behind the loop.                                 *)
(*                                                                         *)
(* main () calls getopt () once and getopt_long () once and only then      *)
(* enters the loop.  The loop tests the first call's result; the switch    *)
(* reads optarg, which by then belongs to the second call.                 *)
(***************************************************************************)
EXTENDS Integers, Sequences, FiniteSets

CONSTANTS
  Texts,     (* the argument texts a user may write behind an option        *)
  MaxArgs,   (* bound: the number of options on a command line              *)
  Written,   (* bound: the options with an argument that users write        *)
  Unset,     (* an indeterminate local of main ()                           *)
  NullArg,   (* optarg when the last option parsed has no argument          *)
  NameTail   (* optarg cut out of the middle of a long option's name        *)

ASSUME MainAssumption ==
  /\ MaxArgs \in Nat
  /\ Written \subseteq {"n", "f", "s", "m", "p", "c", "g", "d", "b", "t", "x", "l"}
  /\ Unset \notin Texts
  /\ "callsign" \notin Texts
  /\ NullArg \notin Texts
  /\ NameTail \notin Texts
  /\ Cardinality({Unset, NullArg, NameTail}) = 3

VARIABLES
  named,     (* argv [0], the name main () was started under, is not empty  *)
  argv,      (* the options of the command line, in order                   *)
  rest,      (* the options getopt has not returned yet                     *)
  options,   (* result of getopt (), the value the loop and switch test     *)
  optarg,    (* getopt's global optarg                                      *)
  params,    (* the locals filename, freq, ... of main ()                   *)
  said,      (* the branch of the switch that spoke last                    *)
  pc         (* where main () is                                            *)

vars == <<named, argv, rest, options, optarg, params, said, pc>>

(* The options with an argument, in the order of their case labels.  Every  *)
(* break between them is commented out.                                     *)
CaseOrder == <<"n", "f", "s", "m", "p", "c", "g", "d", "b", "t", "x", "l">>
Params    == {CaseOrder[k] : k \in DOMAIN CaseOrder}
CaseOf(o) == CHOOSE k \in DOMAIN CaseOrder : CaseOrder[k] = o

(* The cases that keep optarg as a string; the others hand it to atof () or *)
(* atoi ().                                                                 *)
StringParams == {"n", "m", "c", "x"}
Flags        == {"a", "u", "h"}

(* An element of the command line as getopt sees it: an option of           *)
(* short_opt, a long option of long_opt (spelled --name), or "?" for        *)
(* anything getopt rejects.                                                 *)
Elements ==
  [form : {"short", "long"}, opt : Written, arg : Texts]
    \cup [form : {"short"}, opt : Flags \cup {"?"}, arg : {NullArg}]

(* The int getopt returns: a character code, or -1 when nothing is left.    *)
Code ==
  [o \in Params \cup Flags \cup {"?", "end"} |->
     CASE o = "end" -> -1   [] o = "?" -> 63   [] o = "a" -> 97
       [] o = "b" -> 98     [] o = "c" -> 99   [] o = "d" -> 100
       [] o = "f" -> 102    [] o = "g" -> 103  [] o = "h" -> 104
       [] o = "l" -> 108    [] o = "m" -> 109  [] o = "n" -> 110
       [] o = "p" -> 112    [] o = "s" -> 115  [] o = "t" -> 116
       [] o = "u" -> 117    [] o = "x" -> 120]

(* (-1 || 0) is the int 1.                                                  *)
LoopGuard(o) == Code[o] # 1

argc == 1 + Len(argv)

-----------------------------------------------------------------------------
(* getopt () knows short options only: in a long one it trips over the      *)
(* second dash and stops inside the word, where the next call goes on and   *)
(* takes the name's first letter for an option and the others for its text. *)
InsideWord == rest # <<>> /\ rest = argv

Init ==
  /\ named \in BOOLEAN
  /\ \E k \in 0..MaxArgs : argv \in [1..k -> Elements]
  /\ rest = argv
  /\ options = "end"
  /\ optarg = NullArg
  /\ params = [p \in Params |-> IF p = "c" THEN "callsign" ELSE Unset]
  /\ said = "nothing"
  /\ pc = "start"

(* printf ("... %s", *argv [0]) hands the name's first character to %s as   *)
(* if it were an address.  Only the null character of an empty name is one  *)
(* that can be printed, as "(null)".                                        *)
Greet ==
  /\ pc = "start"
  /\ pc' = IF named THEN "crashed" ELSE "getopt"
  /\ UNCHANGED <<named, argv, rest, options, optarg, params, said>>

(* options = getopt (argc, argv, short_opt)                                 *)
GetOpt ==
  /\ pc = "getopt"
  /\ IF rest = <<>>
     THEN options' = "end" /\ UNCHANGED <<optarg, rest>>
     ELSE IF Head(rest).form = "long"
          THEN options' = "?" /\ UNCHANGED <<optarg, rest>>
          ELSE /\ options' = Head(rest).opt
               /\ optarg'  = Head(rest).arg
               /\ rest'    = Tail(rest)
  /\ pc' = "getopt_long"
  /\ UNCHANGED <<named, argv, params, said>>

(* Mutant: no second call.                                                  *)
GetOptLong_Dropped ==
  /\ pc = "getopt_long"
  /\ pc' = "while"
  /\ UNCHANGED <<named, argv, rest, options, optarg, params, said>>

(* flags = getopt_long (...): its result is printed and dropped, but it     *)
(* moves optind on and overwrites optarg.                                   *)
GetOptLong ==
  /\ pc = "getopt_long"
  /\ optarg' = IF rest = <<>> THEN NullArg
               ELSE IF InsideWord THEN NameTail ELSE Head(rest).arg
  /\ rest'   = IF rest = <<>> THEN rest ELSE Tail(rest)
  /\ pc' = "while"
  /\ UNCHANGED <<named, argv, options, params, said>>

(* while (options != (-1 || 0)), and the debug print and return behind it.  *)
(* argc <= 0 cannot be: argv [0] is always there.                           *)
While ==
  /\ pc = "while"
  /\ pc' = IF LoopGuard(options) THEN "switch" ELSE "end"
  /\ UNCHANGED <<named, argv, rest, options, optarg, params, said>>

(* Mutant: the switch stores the option letter.                             *)
Assigned_Letter(o) ==
  [p \in Params |-> IF CaseOf(p) >= CaseOf(o) THEN o ELSE params[p]]

(* The cases from the option's own down to 'l', all with the same optarg.   *)
Assigned(o) ==
  [p \in Params |-> IF CaseOf(p) >= CaseOf(o) THEN optarg ELSE params[p]]

(* What is stored when optarg is null: a string case keeps the pointer, the *)
(* next number dies on it.                                                  *)
BeforeCrash(o) ==
  IF o \in StringParams THEN [params EXCEPT ![o] = optarg] ELSE params

(* atof (NULL) and atoi (NULL) end the process.                             *)
CaseParam ==
  /\ pc = "switch"
  /\ options \in Params
  /\ IF optarg # NullArg
     THEN /\ params' = Assigned(options)
          /\ said' = "assistant error"   \* falls into case 'a', argc # 1
          /\ pc' = "while"
     ELSE /\ params' = BeforeCrash(options)
          /\ pc' = "crashed"
          /\ UNCHANGED said
  /\ UNCHANGED <<named, argv, rest, options, optarg>>

(* case 'a', 'u', 'h': a help text or a declaration when argc is 1, an      *)
(* error otherwise.                                                         *)
CaseFlag ==
  /\ pc = "switch"
  /\ options \in Flags
  /\ said' = IF argc = 1 THEN "served"
             ELSE CASE options = "a" -> "assistant error"
                    [] options = "u" -> "menu error"
                    [] options = "h" -> "help error"
  /\ pc' = "while"
  /\ UNCHANGED <<named, argv, rest, options, optarg, params>>

CaseOther ==
  /\ pc = "switch"
  /\ options \in {"?", "end"}
  /\ said' = IF options = "?" THEN "unknown option" ELSE "argument error"
  /\ pc' = "while"
  /\ UNCHANGED <<named, argv, rest, options, optarg, params>>

Next ==
  Greet \/ GetOpt \/ GetOptLong \/ While \/ CaseParam \/ CaseFlag \/ CaseOther

Spec == Init /\ [][Next]_vars

(* main () is one thread that never blocks.                                 *)
FairSpec == Spec /\ WF_vars(Next)

-----------------------------------------------------------------------------
TypeOK ==
  /\ named \in BOOLEAN
  /\ Len(argv) <= MaxArgs /\ \A k \in DOMAIN argv : argv[k] \in Elements
  /\ Len(rest) <= Len(argv)
  /\ options \in DOMAIN Code
  /\ optarg \in Texts \cup {NullArg, NameTail}
  /\ params \in [Params -> Texts \cup {Unset, NullArg, "callsign"}]
  /\ said \in {"nothing", "served", "assistant error", "menu error",
               "help error", "unknown option", "argument error"}
  /\ pc \in {"start", "getopt", "getopt_long", "while", "switch", "crashed",
             "end"}

(* Whatever the user writes, the parameters of a run are filled from the    *)
(* second option alone: a parameter that holds a text holds the text of the *)
(* second element, and the texts of the first and of all later ones are     *)
(* nowhere.  (getopt_long overwrites optarg before the switch reads it.)    *)
(* This is what the code does, not what its usage text says: OwnParameter.  *)
OnlySecondText ==
  \A p \in Params :
    params[p] \in Texts => Len(argv) >= 2 /\ params[p] = argv[2].arg

(* The switch dies on a command line that opens with an option that takes   *)
(* an argument and goes on with nothing, or with an element without one:    *)
(* on those alone, and on all of those it comes to, although the option's   *)
(* own argument was given.  (optarg is the second element's by then, and    *)
(* atof () and atoi () get its null pointer.)                               *)
LoneOption ==
  /\ argv # <<>> /\ argv[1].form = "short" /\ argv[1].opt \in Params
  /\ Len(argv) = 1 \/ argv[2].arg = NullArg

DiesOnLoneOption ==
  /\ pc = "crashed" /\ ~named => LoneOption
  /\ said # "nothing" => ~LoneOption

-----------------------------------------------------------------------------
(* What the program's own texts promise.                                    *)

(* Each option sets its own parameter: a parameter that holds a text holds  *)
(* one that was written behind its own option.                              *)
OwnParameter ==
  \A p \in Params :
    params[p] \in Texts =>
      \E k \in DOMAIN argv : argv[k].opt = p /\ argv[k].arg = params[p]

(* "if -1 then all flags were read": main () then leaves the loop.          *)
AllReadEndsLoop == (pc = "while" /\ options = "end") ~> pc = "end"

=============================================================================
