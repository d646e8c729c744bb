------------------------------ MODULE OpksshMain ------------------------------
(***************************************************************************)
(* One invocation of the opkssh command (src/opkssh/main.go, run): login, *)
(* verify (sshd's AuthorizedKeysCommand) or add.  The commands package   *)
(* (Login, AuthorizedKeysCommand, Add) is not under src: its calls are    *)
(* nondeterministic successes or errors.                                  *)
(*                                                                         *)
(* What the process writes to stdout is kept as a sequence of line kinds: *)
(* in verify mode sshd reads stdout as authorized_keys lines.  The        *)
(* version check of `sshd -V` is modelled character by character, since   *)
(* it compares version strings: a character is its byte value, and the    *)
(* parts of the output that are never compared are single symbols.        *)
(***************************************************************************)
EXTENDS Naturals, Sequences, SequencesExt

CONSTANTS
  SshdMajors,  \* major versions of the installed sshd explored (< 100)
  SshdMinors,  \* minor versions (< 100)
  MaxArgs      \* bound on len(os.Args)

\* Bytes of the output of `sshd -V`.
Dot == 46
LetterP == 112
Digit(d) == 48 + d
OpenSSHTok == 256   \* "OpenSSH_"
SepTok == 257       \* ", " (strings.Split's separator)
RestTok == 258      \* any other text: " Ubuntu-3ubuntu13", "OpenSSL 3.0.13", usage

\* strconv of a version number below 100.
Digits(n) == IF n < 10 THEN <<Digit(n)>> ELSE <<Digit(n \div 10), Digit(n % 10)>>

\* The installed sshd: OpenSSH maj.min (portable release p1), or a build
\* whose -V prints something else.
Versions == [kind : {"openssh"}, maj : SshdMajors, min : SshdMinors]
Garbled == [kind |-> "garbled"]
NotRun == [kind |-> "none"]

\* What `sshd -V` prints.
SshdOutput(v) ==
  IF v = Garbled THEN <<RestTok>>
  ELSE <<OpenSSHTok>> \o Digits(v.maj) \o <<Dot>> \o Digits(v.min)
         \o <<LetterP, Digit(1), RestTok, SepTok, RestTok>>

Commands == {"login", "verify", "add", "other"}

VARIABLES
  pc,        \* where run() is
  args,      \* os.Args: the command and len(os.Args)
  stdout,    \* lines printed to stdout, by kind
  logOut,    \* where the log package writes (log.SetOutput)
  sshd,      \* the installed sshd, once `sshd -V` has run
  warned,    \* the "requires OpenSSH v. 8.1 or greater" warning was logged
  exitCode   \* os.Exit's argument, -1 while running

vars == <<pc, args, stdout, logOut, sshd, warned, exitCode>>

TypeOK ==
  /\ pc \in {"start", "login", "verifyLog", "verifyVersion", "verifyArgs",
             "verifyAuth", "add", "done"}
  /\ args \in [cmd : Commands \cup {"none"}, argc : 1..MaxArgs]
  /\ stdout \in Seq({"usage", "logFileErr", "execErr", "invalidVersion",
                     "authKey", "addUsage"})
  /\ logOut \in SUBSET {"stderr", "stdout", "file"}
  /\ sshd \in Versions \cup {Garbled, NotRun}
  /\ warned \in BOOLEAN
  /\ exitCode \in {-1, 0, 1, 2}

Init ==
  /\ pc = "start"
  /\ args = [cmd |-> "none", argc |-> 1]
  /\ stdout = <<>>
  /\ logOut = {"stderr"}
  /\ sshd = NotRun
  /\ warned = FALSE
  /\ exitCode = -1

Exit(code) == pc' = "done" /\ exitCode' = code

-----------------------------------------------------------------------------
(***************************************************************************)
(* isOpenSSHVersion8Dot1OrGreater.                                         *)
(***************************************************************************)

IsSepTok(c) == c = SepTok

\* strings.Split(s, ", ")[0]: s up to the first separator.
SplitFirst(s) ==
  LET i == SelectInSeq(s, IsSepTok)
  IN  IF i = 0 THEN s ELSE SubSeq(s, 1, i - 1)

\* strings.TrimPrefix(s, "OpenSSH_").
TrimOpenSSH(s) == IF s # <<>> /\ Head(s) = OpenSSHTok THEN Tail(s) ELSE s

IsDigit(c) == c \in Digit(0)..Digit(9)

\* t matches \d+(?:\.\d+)* in full.
NumericVersion(t) ==
  /\ Len(t) > 0 /\ IsDigit(t[1]) /\ IsDigit(t[Len(t)])
  /\ \A i \in 1..Len(t) :
       IsDigit(t[i]) \/ (t[i] = Dot /\ i < Len(t) /\ IsDigit(t[i + 1]))

\* re.FindStringSubmatch(s)[1] for ^(\d+(?:\.\d+)*).*: the longest prefix
\* matching the group (greedy), or <<>> when there is no match (nil).
Capture(s) ==
  LET ls == {l \in 1..Len(s) : NumericVersion(SubSeq(s, 1, l))}
  IN  IF ls = {} THEN <<>>
      ELSE SubSeq(s, 1, CHOOSE l \in ls : \A k \in ls : k <= l)

\* Go's string comparison a < b: bytewise lexicographic order.
StrLess(a, b) ==
  \E i \in 0..Len(a) :
    /\ i <= Len(b) /\ SubSeq(a, 1, i) = SubSeq(b, 1, i)
    /\ \/ i < Len(a) /\ i < Len(b) /\ a[i + 1] < b[i + 1]
       \/ i = Len(a) /\ i < Len(b)

Version81 == <<Digit(8), Dot, Digit(1)>>

\* The (bool, error) isOpenSSHVersion8Dot1OrGreater returns; err when
\* matches is nil ("Invalid OpenSSH version" printed).
IsOpenSSHVersion8Dot1OrGreater(out) ==
  LET version == Capture(TrimOpenSSH(SplitFirst(out)))
  IN  IF version = <<>> THEN [ok |-> FALSE, err |-> TRUE]
      ELSE [ok |-> ~StrLess(version, Version81), err |-> FALSE]

\* The numeric order the comment at lines 192-194 describes.
AtLeast81(v) == v.maj > 8 \/ (v.maj = 8 /\ v.min >= 1)

-----------------------------------------------------------------------------
(***************************************************************************)
(* run().                                                                  *)
(***************************************************************************)

\* Too few arguments prints the usage; otherwise dispatch on the command.
Start ==
  /\ pc = "start"
  /\ \E argc \in 1..MaxArgs, cmd \in Commands :
       /\ args' = [cmd |-> IF argc < 2 THEN "none" ELSE cmd, argc |-> argc]
       /\ IF argc < 2
            THEN /\ stdout' = Append(stdout, "usage") /\ Exit(1)
            ELSE /\ pc' = CASE cmd = "login"  -> "login"
                            [] cmd = "verify" -> "verifyLog"
                            [] cmd = "add"    -> "add"
                            [] OTHER          -> "done"
                 /\ exitCode' = IF cmd = "other" THEN 1 ELSE -1
                 /\ UNCHANGED stdout
  /\ UNCHANGED <<logOut, sshd, warned>>

\* login: flag parsing (ExitOnError exits 2); an optional log directory
\* whose file, if it opens, gets the log beside stdout; then Login or
\* LoginWithRefresh, which fail on an OP error or a SIGINT cancel.
LoginCmd ==
  /\ pc = "login"
  /\ \/ Exit(2) /\ UNCHANGED logOut
     \/ /\ \E out \in {{"stderr"}, {"stdout", "file"}} : logOut' = out
        /\ \E code \in {0, 1} : Exit(code)
  /\ UNCHANGED <<args, stdout, sshd, warned>>

\* verify: open /var/log/openpubkey.log; a failure is printed to stdout.
VerifyOpenLog ==
  /\ pc = "verifyLog"
  /\ \/ stdout' = Append(stdout, "logFileErr") /\ UNCHANGED logOut
     \/ logOut' = {"file"} /\ UNCHANGED stdout
  /\ pc' = "verifyVersion"
  /\ UNCHANGED <<args, sshd, warned, exitCode>>

\* checkOpenSSHVersion: run `sshd -V`; an exec error is printed to stdout;
\* otherwise a version not >= "8.1" is logged as unsupported.
CheckOpenSSHVersion ==
  /\ pc = "verifyVersion"
  /\ \/ /\ stdout' = Append(stdout, "execErr")
        /\ UNCHANGED <<sshd, warned>>
     \/ \E v \in Versions \cup {Garbled} :
          LET r == IsOpenSSHVersion8Dot1OrGreater(SshdOutput(v))
          IN  /\ sshd' = v
              /\ warned' = ~r.ok
              /\ stdout' = IF r.err THEN Append(stdout, "invalidVersion")
                                    ELSE stdout
  /\ pc' = "verifyArgs"
  /\ UNCHANGED <<args, logOut, exitCode>>

\* sshd passes %u %k %t: anything but four arguments after the program is
\* logged and rejected.
VerifyArgs ==
  /\ pc = "verifyArgs"
  /\ IF args.argc # 5 THEN Exit(1) ELSE pc' = "verifyAuth" /\ UNCHANGED exitCode
  /\ UNCHANGED <<args, stdout, logOut, sshd, warned>>

\* AuthorizedKeysCommand: on success the authorized key line is printed.
AuthorizedKeys ==
  /\ pc = "verifyAuth"
  /\ \/ Exit(1) /\ UNCHANGED stdout
     \/ stdout' = Append(stdout, "authKey") /\ Exit(0)
  /\ UNCHANGED <<args, logOut, sshd, warned>>

\* add: the usage goes to stdout on a wrong argument count; then Add.
AddCmd ==
  /\ pc = "add"
  /\ IF args.argc # 4
       THEN stdout' = Append(stdout, "addUsage") /\ Exit(1)
       ELSE /\ \E code \in {0, 1} : Exit(code)
            /\ UNCHANGED stdout
  /\ UNCHANGED <<args, logOut, sshd, warned>>

Next ==
  \/ Start
  \/ LoginCmd
  \/ VerifyOpenLog
  \/ CheckOpenSSHVersion
  \/ VerifyArgs
  \/ AuthorizedKeys
  \/ AddCmd

Spec == Init /\ [][Next]_vars

-----------------------------------------------------------------------------
(***************************************************************************)
(* Properties.                                                             *)
(***************************************************************************)

(* checkOpenSSHVersion logs "requires OpenSSH v. 8.1 or greater" exactly  *)
(* when the installed sshd is older than 8.1, as the comment at lines     *)
(* 188-194 says, for every version `sshd -V` reports.                     *)
VersionWarningCorrect ==
  sshd.kind = "openssh" => (warned <=> ~AtLeast81(sshd))

(* In verify mode sshd reads stdout as authorized_keys lines: when        *)
(* verification succeeds, the key line is all the command printed         *)
(* (comment at line 150).                                                 *)
StdoutOnlyAuthKey ==
  args.cmd = "verify" /\ exitCode = 0 => stdout = <<"authKey">>

=============================================================================
