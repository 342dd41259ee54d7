------------------------------- MODULE MCArm --------------------------------
(***************************************************************************)
(* ARM code: instructions are encoded and decoded, run by the interpreter, *)
(* chosen for constants, and laid out with pools and branches.  part says  *)
(* which of them a behaviour is about; the variables of the others are 0.  *)
(***************************************************************************)
EXTENDS MCArmTasks, MCArmInstrs

VARIABLES
    part,                           \* the component that runs
    instr, word, back,              \* of ArmDisass
    request, made,                  \* of ArmImm
    prog, sec, next, e              \* of ArmPool

allVars == <<part, task, m, instr, word, back, request, made, prog, sec, next, e>>

Code == INSTANCE ArmDisass WITH Instructions <- AllInstructions

-----------------------------------------------------------------------------
Chooser == INSTANCE ArmImm WITH
    Requests <- AllRequests, Operands <- {Lowest, -1, 0, 5000000}

-----------------------------------------------------------------------------
(***************************************************************************)
(* Programs of two sections, one of them short.  The other has three       *)
(* pieces with runs of plain instructions between them, so that the loads  *)
(* are in all places before and behind the limit of a pool, which is 36    *)
(* bytes for reals and 48 for integers instead of 1024 and 4096.           *)
(***************************************************************************)
Op(kind, arg) == [kind |-> kind, arg |-> arg]
Plainly(n) == [k \in 1 .. n |-> Op("plain", 0)]
LinkedLoad(kind, label, index) == [kind |-> kind, label |-> label, arg |-> index]

\* What may come between runs of plain instructions, the n-th time.
Piece(k, n) ==
    CASE k = 1 -> <<Op("load", 1)>>
      [] k = 2 -> <<Op("load", 1 + n)>>
      [] k = 3 -> <<LinkedLoad("loadlink", 10 + n, 1 + (n % 2)), Op("plain", 0)>>
      [] k = 4 -> <<LinkedLoad("loadsec", 20 + n, 1 + (n % 2)), Op("plain", 0)>>
      [] k = 5 -> <<Op("loadreal", 30 + n)>>
      [] k = 6 -> <<Op("cmov", 0), Op("branch", 50), Op("branch", 51)>>
      [] k = 7 -> <<Op("load", 1), Op("loadreal", 31)>>

Body(a, b, x, y, z) ==
    <<Op("label", 50)>> \o Piece(x, 1) \o Plainly(a) \o Piece(y, 2) \o Plainly(b) \o <<Op("label", 51)>>
    \o Piece(z, 3) \o <<Op("plain", 0)>>

SmallBody ==
    <<Op("adr", 60), Op("call", 1), Op("branch", 61), Op("bytes", 3), Op("align", 4), Op("label", 60), Op("load", 5),
      Op("label", 61), Op("load", 6), Op("call", 2), Op("bytes", 4)>>

AllPrograms ==
    {<<Body(a, b, x, y, z), SmallBody>> : a \in 0 .. 10, b \in {0, 1, 3, 5}, x \in 1 .. 7, y \in 1 .. 7, z \in {2, 3, 5, 6}}
    \cup {<<SmallBody, Body(a, 2, x, 6, 4)>> : a \in 0 .. 10, x \in 1 .. 7}

Encoder == INSTANCE ArmPool WITH
    Programs <- AllPrograms, RawSizes <- <<5, 8>>, IntLimit <- 48, RealLimit <- 36

-----------------------------------------------------------------------------
NoProgram == task = 0 /\ m = 0
NoCode == instr = 0 /\ word = 0 /\ back = 0
NoRequest == request = 0 /\ made = 0
NoSections == prog = 0 /\ sec = 0 /\ next = 0 /\ e = 0

ArmInit ==
    \/ part = "interpreter" /\ Init /\ NoCode /\ NoRequest /\ NoSections
    \/ part = "code" /\ Code!Init /\ NoProgram /\ NoRequest /\ NoSections
    \/ part = "constants" /\ Chooser!Init /\ NoProgram /\ NoCode /\ NoSections
    \/ part = "pools" /\ Encoder!Init /\ NoProgram /\ NoCode /\ NoRequest

ArmNext ==
    /\ UNCHANGED part
    /\ \/ part = "interpreter" /\ Next /\ UNCHANGED <<instr, word, back, request, made, prog, sec, next, e>>
       \/ part = "code" /\ Code!Next /\ UNCHANGED <<task, m, request, made, prog, sec, next, e>>
       \/ part = "constants" /\ Chooser!Next /\ UNCHANGED <<task, m, instr, word, back, prog, sec, next, e>>
       \/ part = "pools" /\ Encoder!Next /\ UNCHANGED <<task, m, instr, word, back, request, made>>

ArmSpec == ArmInit /\ [][ArmNext]_allVars

-----------------------------------------------------------------------------
\* Instructions of one program mean the same things.
ProgramsAgree == part = "interpreter" => ProgramsMeetGoals

\* The disassembler decodes what the encoder encodes, apart from offsets of
\* halfwords above 15.
CodeRoundTrips == part = "code" => Code!EncodingRoundTrips

\* Whatever the constant, the instructions for it compute what is asked for.
ConstantsRight == part = "constants" => Chooser!ImmediatesRight

\* Wherever the pools come to lie, every load reads its constant and no pool is run.
PoolsInReach == part = "pools" => Encoder!PoolsReach

=============================================================================
