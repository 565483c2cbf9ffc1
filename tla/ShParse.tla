------------------------------- MODULE ShParse -------------------------------
(***************************************************************************)
(* The shell's parser (sh.c): recursive descent over a line, a sequence of *)
(* characters.  The parsing operators take the line s and a position i and *)
(* return [i, cmd]: the next position and the command, or Panic.           *)
(***************************************************************************)
EXTENDS Integers, Sequences, FiniteSets

CONSTANT MAXARGS

Blank == " "
Symbols == {"<", "|", ">", "&", ";", "(", ")"}
End == "end"

At(s, i) == IF i > Len(s) THEN End ELSE s[i]
Panic == [i |-> 0, cmd |-> [type |-> "panic"]]
IsPanic(r) == r.i = 0

RECURSIVE Skip(_, _)
Skip(s, i) == IF At(s, i) = Blank THEN Skip(s, i + 1) ELSE i
RECURSIVE WordEnd(_, _)
WordEnd(s, i) == IF At(s, i) \in Symbols \cup {Blank, End} THEN i ELSE WordEnd(s, i + 1)

(* gettoken(): its token, the word it delimits, which nulterminate() turns *)
(* into a string after the parse, and the position of the next token.      *)
Token(s, tok, j, end) == [tok |-> tok, word |-> SubSeq(s, j, end - 1), i |-> Skip(s, end)]
TokenAt(s, j) ==
  CASE At(s, j) = End -> Token(s, End, j, j)
    [] At(s, j) = ">" /\ At(s, j + 1) = ">" -> Token(s, "+", j, j + 2)
    [] At(s, j) \in Symbols /\ ~(At(s, j) = ">" /\ At(s, j + 1) = ">") ->
         Token(s, At(s, j), j, j + 1)
    [] OTHER -> Token(s, "a", j, WordEnd(s, j))
gettoken(s, i) == TokenAt(s, Skip(s, i))

peek(s, i, toks) == At(s, Skip(s, i)) \in toks

-----------------------------------------------------------------------------
(* The constructors.                                                       *)
execcmd(argv) == [type |-> "EXEC", argv |-> argv]
redircmd(c, tok, file) ==
  [type |-> "REDIR", cmd |-> c, file |-> file, fd |-> IF tok = "<" THEN 0 ELSE 1]
pipecmd(l, r) == [type |-> "PIPE", left |-> l, right |-> r]
listcmd(l, r) == [type |-> "LIST", left |-> l, right |-> r]
backcmd(c) == [type |-> "BACK", cmd |-> c]

(* parseredirs() collects the redirections, in their order in the line;    *)
(* Redirected() puts them around a command, the last one outermost.        *)
RECURSIVE parseredirs(_, _, _)
RedirTo(s, tok, f, redirs) ==
  IF f.tok # "a" THEN Panic
  ELSE parseredirs(s, f.i, Append(redirs, <<tok, f.word>>))
parseredirs(s, i, redirs) ==
  IF ~peek(s, i, {"<", ">"}) THEN [i |-> i, cmd |-> redirs]
  ELSE RedirTo(s, gettoken(s, i).tok, gettoken(s, gettoken(s, i).i), redirs)

RECURSIVE Redirected(_, _)
Redirected(c, redirs) ==
  IF redirs = <<>> THEN c
  ELSE Redirected(redircmd(c, redirs[1][1], redirs[1][2]), Tail(redirs))

(* The loop of parseexec(), after the redirections r before an argument t. *)
RECURSIVE Arguments(_, _, _)
Argument(s, r, argv, t) ==
  IF t.tok \in {"|", ")", "&", ";", End}
  THEN [i |-> r.i, cmd |-> Redirected(execcmd(argv), r.cmd)]
  ELSE IF t.tok # "a" \/ Len(argv) + 1 >= MAXARGS THEN Panic
  ELSE Arguments(s, parseredirs(s, t.i, r.cmd), Append(argv, t.word))
Arguments(s, r, argv) ==
  IF IsPanic(r) THEN Panic ELSE Argument(s, r, argv, gettoken(s, r.i))

RECURSIVE parseline(_, _), parsepipe(_, _), Backs(_, _)

(* parseblock(), after the line b in the parentheses.                      *)
RedirectedBy(c, r) ==
  IF IsPanic(r) THEN Panic ELSE [i |-> r.i, cmd |-> Redirected(c, r.cmd)]
BlockEnd(s, b) ==
  IF IsPanic(b) \/ ~peek(s, b.i, {")"}) THEN Panic
  ELSE RedirectedBy(b.cmd, parseredirs(s, gettoken(s, b.i).i, <<>>))
parseblock(s, i) == BlockEnd(s, parseline(s, gettoken(s, i).i))

parseexec(s, i) ==
  IF peek(s, i, {"("}) THEN parseblock(s, i)
  ELSE Arguments(s, parseredirs(s, i, <<>>), <<>>)

PipeTo(l, r) == IF IsPanic(r) THEN Panic ELSE [i |-> r.i, cmd |-> pipecmd(l.cmd, r.cmd)]
PipeRest(s, l) ==
  IF IsPanic(l) \/ ~peek(s, l.i, {"|"}) THEN l
  ELSE PipeTo(l, parsepipe(s, gettoken(s, l.i).i))
parsepipe(s, i) == PipeRest(s, parseexec(s, i))

(* The loop of parseline() over "&", and its ";".                          *)
Backs(s, r) ==
  IF IsPanic(r) \/ ~peek(s, r.i, {"&"}) THEN r
  ELSE Backs(s, [i |-> gettoken(s, r.i).i, cmd |-> backcmd(r.cmd)])
ListTo(l, r) == IF IsPanic(r) THEN Panic ELSE [i |-> r.i, cmd |-> listcmd(l.cmd, r.cmd)]
ListRest(s, l) ==
  IF IsPanic(l) \/ ~peek(s, l.i, {";"}) THEN l
  ELSE ListTo(l, parseline(s, gettoken(s, l.i).i))
parseline(s, i) == ListRest(s, Backs(s, parsepipe(s, i)))

(* Mutant: what is left over after the command is ignored. *)
LeftoversNone(s, i) == FALSE
Leftovers(s, i) == Skip(s, i) <= Len(s)

Whole(s, r) == IF IsPanic(r) \/ Leftovers(s, r.i) THEN Panic.cmd ELSE r.cmd
parsecmd(s) == Whole(s, parseline(s, 1))

-----------------------------------------------------------------------------
(* The reference: the grammar of a line, by cutting its tokens at the      *)
(* operators outside parentheses, the weakest first.                       *)

(* Where the tokens start: a ">" does if an even number precedes it.       *)
Starts(s) ==
  LET run(i) == Cardinality({j \in 1..(i - 1) : \A k \in j..(i - 1) : s[k] = ">"})
      word(i) == s[i] \notin Symbols \cup {Blank}
  IN {i \in 1..Len(s) :
        \/ s[i] \in Symbols \ {">"}
        \/ s[i] = ">" /\ run(i) % 2 = 0
        \/ word(i) /\ (i = 1 \/ ~word(i - 1))}

(* The text of each token.                                                 *)
Tokens(s) ==
  LET st == Starts(s)
      nth(n) == CHOOSE i \in st : Cardinality({j \in st : j < i}) = n - 1
      inside(i, j) == \A k \in (i + 1)..j : k \notin st /\ s[k] # Blank
      last(i) == CHOOSE j \in i..Len(s) : inside(i, j) /\ ~(j < Len(s) /\ inside(i, j + 1))
  IN [n \in 1..Cardinality(st) |-> SubSeq(s, nth(n), last(nth(n)))]

IsWord(t) == t[1] \notin Symbols
IsRedir(t) == t[1] \in {"<", ">"}
Depth(T, k) == Cardinality({j \in 1..k : T[j] = <<"(">>})
               - Cardinality({j \in 1..k : T[j] = <<")">>})

(* The first x outside the parentheses of T, or 0.                         *)
FirstOf(T, x) ==
  LET at == {k \in DOMAIN T : T[k] = <<x>> /\ Depth(T, k) = 0}
  IN IF at = {} THEN 0 ELSE CHOOSE k \in at : \A j \in at : k <= j
Upto(T, k) == SubSeq(T, 1, k - 1)
After(T, k) == SubSeq(T, k + 1, Len(T))

Bad == Panic.cmd
Both(l, r, c) == IF Bad \in {l, r} THEN Bad ELSE c

(* Files follow redirections; the other words are arguments.               *)
Picked(T, S) ==
  LET nth(n) == CHOOSE i \in S : Cardinality({j \in S : j < i}) = n - 1
  IN [n \in 1..Cardinality(S) |-> nth(n)]
Files(T) == {k \in DOMAIN T : k > 1 /\ IsRedir(T[k - 1])}
RedirsOf(T) == LET f == Picked(T, Files(T))
               IN [n \in DOMAIN f |-> <<T[f[n] - 1][1], T[f[n]]>>]
FilesFollow(T) == \A k \in DOMAIN T : IsRedir(T[k]) => k < Len(T) /\ IsWord(T[k + 1])

RECURSIVE Line(_), Back(_), Pipeline(_), Simple(_)
Line(T) ==
  LET k == FirstOf(T, ";") IN
  IF k = 0 THEN Back(T)
  ELSE LET l == Back(Upto(T, k)) r == Line(After(T, k)) IN Both(l, r, listcmd(l, r))
Back(T) ==
  IF T # <<>> /\ T[Len(T)] = <<"&">>
  THEN LET c == Back(Upto(T, Len(T))) IN Both(c, c, backcmd(c))
  ELSE Pipeline(T)
Pipeline(T) ==
  LET k == FirstOf(T, "|") IN
  IF k = 0 THEN Simple(T)
  ELSE LET l == Simple(Upto(T, k)) r == Pipeline(After(T, k)) IN Both(l, r, pipecmd(l, r))
Simple(T) ==
  IF T # <<>> /\ T[1] = <<"(">>
  THEN LET k == FirstOf(T, ")")
           c == IF k = 0 THEN Bad ELSE Line(SubSeq(T, 2, k - 1))
           rest == After(T, k)
       IN IF /\ c # Bad /\ FilesFollow(rest)
             /\ \A j \in DOMAIN rest : IsRedir(rest[j]) \/ j \in Files(rest)
          THEN Redirected(c, RedirsOf(rest)) ELSE Bad
  ELSE LET args == Picked(T, {k \in DOMAIN T : IsWord(T[k])} \ Files(T)) IN
       IF /\ FilesFollow(T) /\ \A k \in DOMAIN T : IsWord(T[k]) \/ IsRedir(T[k])
          /\ Len(args) < MAXARGS
       THEN Redirected(execcmd([n \in DOMAIN args |-> T[args[n]]]), RedirsOf(T))
       ELSE Bad

Meaning(s) == Line(Tokens(s))
=============================================================================
