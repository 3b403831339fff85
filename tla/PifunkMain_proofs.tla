-------------------------- MODULE PifunkMain_proofs --------------------------
(***************************************************************************)
(* The parameters of a run come from the second option of the command      *)
(* line, and the switch dies where that option has no argument, for        *)
(* command lines of every length and argument texts of every kind.         *)
(***************************************************************************)
EXTENDS PifunkMain, TLAPS

(* getopt has taken one word, or stands inside the first.                   *)
OneTaken == argv # <<>> => rest = Tail(argv) \/ rest = argv

(* The argument text in optarg, once both calls are done.                   *)
SecondText(t) == t \in Texts => Len(argv) >= 2 /\ t = argv[2].arg

IInv ==
  /\ argv \in Seq(Elements)
  /\ pc \in {"start", "getopt", "getopt_long", "while", "switch", "crashed",
             "end"}
  /\ pc \in {"start", "getopt"} => rest = argv /\ optarg = NullArg
  /\ pc = "getopt_long" => OneTaken /\ (argv = <<>> => rest = <<>>)
  /\ pc \notin {"start", "getopt", "getopt_long"} => SecondText(optarg)
  /\ \A p \in Params : SecondText(params[p])
  /\ DOMAIN params = Params

LEMMA InitIInv == Init => IInv
  <1> SUFFICES ASSUME Init PROVE IInv
    OBVIOUS
  <1>1. argv \in Seq(Elements)
    BY DEF Init
  <1>2. \A p \in Params : params[p] \notin Texts
    BY MainAssumption DEF Init
  <1>. QED
    BY <1>1, <1>2 DEF Init, IInv, SecondText

LEMMA NextIInv == IInv /\ [Next]_vars => IInv'
  <1> SUFFICES ASSUME IInv, [Next]_vars PROVE IInv'
    OBVIOUS
  <1>0. CASE Greet
    BY <1>0, MainAssumption DEF Greet, IInv, OneTaken, SecondText
  <1>1. CASE GetOpt
    BY <1>1 DEF GetOpt, IInv, OneTaken, SecondText
  <1>2. CASE GetOptLong
    <2>1. SecondText(optarg')
      <3>1. CASE rest = <<>>
        BY <1>2, <3>1, MainAssumption DEF GetOptLong, SecondText
      <3>2. CASE rest # <<>> /\ InsideWord
        BY <1>2, <3>2, MainAssumption DEF GetOptLong, SecondText
      <3>3. CASE rest # <<>> /\ ~InsideWord
        <4>1. argv # <<>> /\ rest = Tail(argv)
          BY <1>2, <3>3 DEF GetOptLong, IInv, OneTaken, InsideWord
        <4>2. Len(argv) >= 2 /\ Head(rest) = argv[2]
          BY <4>1, <3>3 DEF IInv
        <4>. QED
          BY <1>2, <3>3, <4>2 DEF GetOptLong, SecondText
      <3>. QED
        BY <3>1, <3>2, <3>3
    <2>. QED
      BY <1>2, <2>1 DEF GetOptLong, IInv, OneTaken, SecondText
  <1>3. CASE While
    BY <1>3 DEF While, IInv, OneTaken, SecondText
  <1>4. CASE CaseParam
    BY <1>4 DEF CaseParam, IInv, OneTaken, SecondText, Assigned, BeforeCrash
  <1>5. CASE CaseFlag
    BY <1>5 DEF CaseFlag, IInv, OneTaken, SecondText
  <1>6. CASE CaseOther
    BY <1>6 DEF CaseOther, IInv, OneTaken, SecondText
  <1>7. CASE UNCHANGED vars
    BY <1>7 DEF vars, IInv, OneTaken, SecondText
  <1>. QED
    BY <1>0, <1>1, <1>2, <1>3, <1>4, <1>5, <1>6, <1>7 DEF Next

(* Every parameter that holds a text holds the text of the second option:   *)
(* the effect of getopt_long () overwriting optarg behind getopt ()'s back. *)
THEOREM OnlySecondTextAlways == Spec => []OnlySecondText
  <1>1. IInv => OnlySecondText
    BY DEF IInv, OnlySecondText, SecondText
  <1>. QED
    BY <1>1, InitIInv, NextIInv, PTL DEF Spec

-----------------------------------------------------------------------------
LEMMA ParamsListed ==
  Params = {"n", "f", "s", "m", "p", "c", "g", "d", "b", "t", "x", "l"}
  BY DEF Params, CaseOrder

LEMMA CodesListed == DOMAIN Code = Params \cup Flags \cup {"?", "end"}
  BY DEF Code

(* What an element of the command line holds.                               *)
LEMMA ElementHolds ==
  ASSUME NEW e \in Elements
  PROVE  /\ e.opt \in Params \cup Flags \cup {"?"}
         /\ e.arg \in Texts \cup {NullArg}
         /\ e.form \in {"short", "long"}
  BY ParamsListed, MainAssumption DEF Elements, Flags

-----------------------------------------------------------------------------
(* The first element decides what getopt () returns, the second what        *)
(* getopt_long () leaves in optarg.                                         *)
FirstTaken == argv # <<>> /\ argv[1].form = "short" /\ argv[1].opt \in Params
NoSecondText == Len(argv) = 1 \/ argv[2].arg = NullArg

Asked    == ~named /\ pc \notin {"start", "getopt"}
Speaking == Asked /\ pc # "getopt_long"

(* The line and the option taken from it.                                   *)
LineInv ==
  /\ argv \in Seq(Elements) /\ rest \in Seq(Elements)
  /\ named => pc \in {"start", "crashed"}
  /\ ~Asked => options = "end" /\ optarg = NullArg /\ said = "nothing"
  /\ pc \in {"start", "getopt"} => rest = argv
  /\ Asked => (options \in Params <=> FirstTaken)
  /\ pc = "getopt_long" => said = "nothing"
  /\ pc = "getopt_long" /\ options \in Params => rest = Tail(argv)

(* optarg where a case of the switch reads it.  The middle of a word is     *)
(* left only where getopt () stopped on a long option: no parameter is      *)
(* assigned then.                                                           *)
OptargInv ==
  /\ Speaking /\ options \in Params =>
       /\ optarg \in Texts \cup {NullArg}
       /\ optarg = NullArg <=> NoSecondText
  /\ said # "nothing" /\ options \in Params => optarg # NullArg
  /\ pc = "crashed" /\ ~named => options \in Params /\ optarg = NullArg

FInv == TypeOK /\ LineInv /\ OptargInv

LEMMA InitFInv == Init => FInv
  <1> SUFFICES ASSUME Init PROVE FInv
    OBVIOUS
  <1>1. PICK k \in 0..MaxArgs : argv \in [1..k -> Elements]
    BY DEF Init
  <1>2. argv \in Seq(Elements) /\ Len(argv) = k /\ DOMAIN argv = 1..k
    BY <1>1, MainAssumption
  <1>3. "end" \in DOMAIN Code
    BY CodesListed
  <1>4. TypeOK
    BY <1>2, <1>3, MainAssumption DEF Init, TypeOK
  <1>. QED
    BY <1>2, <1>4 DEF Init, FInv, LineInv, OptargInv, Asked, Speaking

LEMMA GreetFInv == FInv /\ Greet => FInv'
  BY DEF FInv, TypeOK, LineInv, OptargInv, Asked, Speaking, Greet

LEMMA GetOptFInv == FInv /\ GetOpt => FInv'
  <1> SUFFICES ASSUME FInv, GetOpt PROVE FInv'
    OBVIOUS
  <1>1. "end" \notin Params /\ "?" \notin Params
    BY ParamsListed
  <1>2. /\ TypeOK /\ LineInv /\ OptargInv
        /\ pc = "getopt" /\ pc' = "getopt_long" /\ rest = argv /\ ~named
        /\ said = "nothing"
        /\ UNCHANGED <<named, argv, params, said>>
    BY DEF FInv, LineInv, GetOpt, Asked
  <1>3. /\ options' \in DOMAIN Code
        /\ optarg' \in Texts \cup {NullArg, NameTail}
        /\ rest' \in Seq(Elements) /\ Len(rest') <= Len(argv)
        /\ options' \in Params <=> FirstTaken
        /\ options' \in Params => rest' = Tail(argv)
    <2>1. CASE rest = <<>>
      BY <1>1, <1>2, <2>1, CodesListed DEF GetOpt, TypeOK, LineInv, FirstTaken
    <2>2. CASE rest # <<>> /\ Head(rest).form = "long"
      BY <1>1, <1>2, <2>2, CodesListed DEF GetOpt, TypeOK, LineInv, FirstTaken
    <2>3. CASE rest # <<>> /\ Head(rest).form # "long"
      <3>1. Head(rest) \in Elements /\ Head(rest) = argv[1]
        BY <1>2, <2>3 DEF LineInv
      <3>2. /\ options' = Head(rest).opt /\ optarg' = Head(rest).arg
            /\ rest' = Tail(rest)
        BY <2>3 DEF GetOpt
      <3>3. Tail(rest) \in Seq(Elements) /\ Len(Tail(rest)) = Len(rest) - 1
        BY <1>2, <2>3 DEF LineInv
      <3>4. argv[1].form = "short"
        BY <2>3, <3>1, ElementHolds
      <3>. QED
        BY <1>2, <2>3, <3>1, <3>2, <3>3, <3>4, ElementHolds, CodesListed
           DEF LineInv, FirstTaken
    <2>. QED
      BY <2>1, <2>2, <2>3
  <1>4. TypeOK'
    BY <1>2, <1>3 DEF TypeOK
  <1>5. LineInv'
    BY <1>2, <1>3 DEF LineInv, Asked, FirstTaken
  <1>6. OptargInv'
    BY <1>2 DEF OptargInv, Speaking, Asked
  <1>. QED
    BY <1>4, <1>5, <1>6 DEF FInv

LEMMA GetOptLongFInv == FInv /\ GetOptLong => FInv'
  <1> SUFFICES ASSUME FInv, GetOptLong PROVE FInv'
    OBVIOUS
  <1>1. /\ TypeOK /\ LineInv /\ OptargInv
        /\ pc = "getopt_long" /\ pc' = "while" /\ ~named
        /\ said = "nothing"
        /\ argv \in Seq(Elements) /\ rest \in Seq(Elements)
        /\ options \in Params <=> FirstTaken
        /\ options \in Params => rest = Tail(argv)
        /\ UNCHANGED <<named, argv, options, params, said>>
    BY DEF FInv, LineInv, Asked, GetOptLong
  <1>2. /\ optarg' \in Texts \cup {NullArg, NameTail}
        /\ rest' \in Seq(Elements) /\ Len(rest') <= Len(argv)
    <2>1. CASE rest = <<>>
      BY <1>1, <2>1 DEF GetOptLong, TypeOK
    <2>2. CASE rest # <<>>
      <3>1. Head(rest) \in Elements /\ rest' = Tail(rest)
        BY <1>1, <2>2 DEF GetOptLong
      <3>2. Tail(rest) \in Seq(Elements) /\ Len(Tail(rest)) = Len(rest) - 1
        BY <1>1, <2>2
      <3>3. Len(rest) \in Nat /\ Len(argv) \in Nat /\ Len(rest) <= Len(argv)
        <4>1. Len(rest) <= Len(argv)
          BY <1>1 DEF TypeOK
        <4>. QED
          BY <1>1, <4>1
      <3>4. Head(rest).arg \in Texts \cup {NullArg}
        BY <3>1, ElementHolds
      <3>5. optarg' = IF InsideWord THEN NameTail ELSE Head(rest).arg
        BY <2>2 DEF GetOptLong
      <3>. QED
        BY <3>1, <3>2, <3>3, <3>4, <3>5
    <2>. QED
      BY <2>1, <2>2
  <1>3. ASSUME options \in Params
        PROVE  /\ optarg' \in Texts \cup {NullArg}
               /\ optarg' = NullArg <=> NoSecondText
    <2>1. argv # <<>> /\ rest = Tail(argv)
      BY <1>1, <1>3 DEF FirstTaken
    <2>2. CASE rest = <<>>
      <3>1. Len(argv) = 1
        <4>1. Len(rest) = Len(argv) - 1 /\ Len(argv) \in Nat
          BY <1>1, <2>1
        <4>2. Len(rest) = 0
          BY <2>2
        <4>. QED
          BY <4>1, <4>2
      <3>. QED
        BY <2>2, <3>1 DEF GetOptLong, NoSecondText
    <2>3. CASE rest # <<>>
      <3>1. Head(rest) = argv[2] /\ Len(argv) # 1 /\ rest # argv
        BY <1>1, <2>1, <2>3
      <3>2. optarg' = argv[2].arg
        BY <2>3, <3>1 DEF GetOptLong, InsideWord
      <3>3. argv[2] \in Elements
        BY <1>1, <2>3, <3>1
      <3>. QED
        BY <3>1, <3>2, <3>3, ElementHolds DEF NoSecondText
    <2>. QED
      BY <2>2, <2>3
  <1>4. TypeOK'
    BY <1>1, <1>2 DEF TypeOK
  <1>5. LineInv'
    BY <1>1, <1>2 DEF LineInv, Asked, FirstTaken
  <1>6. OptargInv'
    BY <1>1, <1>3 DEF OptargInv, Speaking, Asked, NoSecondText
  <1>. QED
    BY <1>4, <1>5, <1>6 DEF FInv

LEMMA CaseParamFInv == FInv /\ CaseParam => FInv'
  <1> SUFFICES ASSUME FInv, CaseParam PROVE FInv'
    OBVIOUS
  <1>1. /\ TypeOK /\ LineInv /\ OptargInv
        /\ pc = "switch" /\ options \in Params /\ ~named
        /\ UNCHANGED <<named, argv, rest, options, optarg>>
    BY DEF FInv, CaseParam, LineInv
  <1>2. Speaking /\ optarg \in Texts \cup {NullArg}
    BY <1>1 DEF OptargInv, Speaking, Asked
  <1>3. CASE optarg # NullArg
    <2>1. /\ params' = Assigned(options) /\ said' = "assistant error"
          /\ pc' = "while"
      BY <1>3 DEF CaseParam
    <2>2. params' \in [Params -> Texts \cup {Unset, NullArg, "callsign"}]
      BY <1>1, <1>2, <2>1 DEF TypeOK, Assigned
    <2>3. TypeOK'
      BY <1>1, <2>1, <2>2 DEF TypeOK
    <2>4. LineInv' /\ OptargInv'
      BY <1>1, <1>2, <1>3, <2>1
         DEF LineInv, OptargInv, Speaking, Asked, FirstTaken, NoSecondText
    <2>. QED
      BY <2>3, <2>4 DEF FInv
  <1>4. CASE optarg = NullArg
    <2>1. params' = BeforeCrash(options) /\ pc' = "crashed" /\ said' = said
      BY <1>4 DEF CaseParam
    <2>2. params' \in [Params -> Texts \cup {Unset, NullArg, "callsign"}]
      BY <1>1, <1>4, <2>1 DEF TypeOK, BeforeCrash
    <2>3. TypeOK'
      BY <1>1, <2>1, <2>2 DEF TypeOK
    <2>4. LineInv' /\ OptargInv'
      BY <1>1, <1>2, <1>4, <2>1
         DEF LineInv, OptargInv, Speaking, Asked, FirstTaken, NoSecondText
    <2>. QED
      BY <2>3, <2>4 DEF FInv
  <1>. QED
    BY <1>3, <1>4

(* Steps that leave the options and the parameters alone.                   *)
LEMMA QuietFInv ==
  FInv /\ (While \/ CaseFlag \/ CaseOther \/ UNCHANGED vars) => FInv'
  <1> SUFFICES ASSUME FInv, While \/ CaseFlag \/ CaseOther \/ UNCHANGED vars
               PROVE  FInv'
    OBVIOUS
  <1> USE DEF FInv, TypeOK, LineInv, OptargInv, Asked, Speaking, FirstTaken,
              NoSecondText
  <1>1. options \in Params => options \notin Flags \cup {"?", "end"}
    BY ParamsListed DEF Flags
  <1>2. CASE While
    BY <1>2 DEF While
  <1>3. CASE CaseFlag
    <2>1. /\ said' \in {"served", "assistant error", "menu error", "help error"}
          /\ pc = "switch" /\ pc' = "while" /\ options \notin Params
      BY <1>1, <1>3 DEF CaseFlag, Flags
    <2>. QED
      BY <1>3, <2>1 DEF CaseFlag
  <1>4. CASE CaseOther
    <2>1. /\ said' \in {"unknown option", "argument error"}
          /\ pc = "switch" /\ pc' = "while" /\ options \notin Params
      BY <1>1, <1>4 DEF CaseOther
    <2>. QED
      BY <1>4, <2>1 DEF CaseOther
  <1>5. CASE UNCHANGED vars
    BY <1>5 DEF vars
  <1>. QED
    BY <1>2, <1>3, <1>4, <1>5

LEMMA FInvAlways == Spec => []FInv
  <1>1. FInv /\ [Next]_vars => FInv'
    BY GreetFInv, GetOptFInv, GetOptLongFInv, CaseParamFInv, QuietFInv DEF Next
  <1>. QED
    BY <1>1, InitFInv, PTL DEF Spec

(* No parameter ever holds the middle of a long option's name, whatever the *)
(* two calls of getopt make of the command line.                            *)
THEOREM TypeOKAlways == Spec => []TypeOK
  <1>1. FInv => TypeOK
    BY DEF FInv
  <1>. QED
    BY <1>1, FInvAlways, PTL

(* The switch dies on the null pointer exactly where an option with an      *)
(* argument opens the line and no text is behind the next element, on       *)
(* command lines of every length and however often the loop turns.          *)
THEOREM DiesOnLoneOptionAlways == Spec => []DiesOnLoneOption
  <1>1. FInv => DiesOnLoneOption
    <2> SUFFICES ASSUME FInv PROVE DiesOnLoneOption
      OBVIOUS
    <2>1. LoneOption <=> FirstTaken /\ NoSecondText
      BY DEF LoneOption, FirstTaken, NoSecondText
    <2>2. ASSUME pc = "crashed", ~named PROVE LoneOption
      BY <2>1, <2>2 DEF FInv, LineInv, OptargInv, Speaking, Asked
    <2>3. ASSUME said # "nothing" PROVE ~LoneOption
      BY <2>1, <2>3 DEF FInv, LineInv, OptargInv, Speaking, Asked
    <2>. QED
      BY <2>2, <2>3 DEF DiesOnLoneOption
  <1>. QED
    BY <1>1, FInvAlways, PTL

=============================================================================
