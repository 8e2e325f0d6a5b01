----------------------------- MODULE HostProgram -----------------------------
(***************************************************************************)
(* The host program (main and test_kernel of kernel.cpp) from its command  *)
(* line to the files it writes. CmdLineParser parses the arguments,        *)
(* HbmLayout moves the data and has the device's side of a run.            *)
(*                                                                         *)
(* A file has one line for each half of a word (LOGQ = 32, PACK_FACTOR =   *)
(* 2); line p of word w is <<w, p>>.                                       *)
(***************************************************************************)
EXTENDS CmdLineParser, HbmLayout

CONSTANTS
  DeviceIds,  \* texts that stoi takes for a number
  Devices,    \* those of them that are a device
  Packages,   \* names of xclbin files there are
  Disks       \* states of the input files: lines there are of a row that is not whole, or Missing

Missing     == -1
PACK_FACTOR == 2

VARIABLES
  disk,     \* the input files
  nread,    \* how many of the inputs have been read
  files,    \* the files written, line by line
  aborted,  \* has the device given up the run?
  status    \* "runs", or how the process has ended

hostVars == <<disk, nread, files, aborted, status>>
vars     == <<parserVars, layoutVars, hostVars>>

\* The switches of main.
MainCalls ==
  << Switch(Long("xclbin"), Short("x"), TRUE, Empty, FALSE),
     Switch(Long("device_id"), Short("d"), TRUE, Text("0"), FALSE) >>

ASSUME ClientsAssumption == "main" \in DOMAIN Clients /\ Clients["main"] = MainCalls
ASSUME DisksAssumption ==
  \A d \in Disks : \A f \in DOMAIN d : d[f] \in Missing .. PACK_FACTOR * PC * POLY_CC - 1

EXIT_SUCCESS == "success"
EXIT_FAILURE == "failure"

TypeOK ==
  /\ ParserTypeOK /\ LayoutTypeOK
  /\ step \in Steps \cup {"settings", "device", "xclbin", "cu", "read", "bo", "write_poly", "write_ct_rl", "end"}
  /\ disk \in Disks \cup {<<>>} /\ nread \in 0 .. 7 /\ aborted \in BOOLEAN
  /\ status \in {"runs", EXIT_SUCCESS, EXIT_FAILURE, "terminated"}

Init ==
  /\ ParserInit /\ LayoutInit
  /\ step = "settings" /\ nread = 0
  /\ disk = <<>> /\ files = <<>> /\ aborted = FALSE /\ status = "runs"

-----------------------------------------------------------------------------
(***************************************************************************)
(* The command line and the device.                                        *)
(***************************************************************************)
Running == status = "runs"

Parse ==
  /\ Running /\ ParserNext
  /\ status' = IF parsed' = "crash" THEN "terminated" ELSE status
  /\ UNCHANGED <<layoutVars, disk, nread, files, aborted>>

At(s) == Running /\ client = "main" /\ step = s

\* What parse returns is not looked at. stoi throws at a text that is no number, before
\* the arguments are counted.
Settings ==
  /\ At("settings") /\ parsed \in {"ok", "unknown", "help"}
  /\ status' = CASE Value(Text("device_id"))[2] \notin DeviceIds -> "terminated"
                 [] Len(argv) < 3                                -> EXIT_FAILURE
                 [] OTHER                                        -> status
  /\ step' = "device"
  /\ UNCHANGED <<parserVars, disk, nread, files, aborted, vec, offset, bo, hbm, rd, wr, fault, poly, ct_rl>>

\* Opening the device, loading the xclbin, opening the kernel: XRT throws when it cannot.
Open(from, there, next) ==
  /\ At(from)
  /\ IF there THEN step' = next /\ UNCHANGED status
              ELSE status' = "terminated" /\ UNCHANGED step
  /\ UNCHANGED <<parserVars, disk, nread, files, aborted, vec, offset, bo, hbm, rd, wr, fault, poly, ct_rl>>

OpenDevice == Open("device", Value(Text("device_id"))[2] \in Devices, "xclbin")
LoadXclbin == Open("xclbin", Value(Text("xclbin"))[2] \in Packages, "cu")
KernelTaken == Open("cu", FALSE, "read")

\* The kernel is the program's alone. From here on the arguments are not used and forgotten; the
\* input files are in any of their states.
OpenKernel ==
  /\ At("cu") /\ step' = "read"
  /\ AllocateVectors /\ disk' \in Disks
  /\ argv' = <<argv[1]>> /\ i' = 1 /\ keys' = [k \in {Help} |-> keys[k]] /\ shortcuts' = <<>>
  /\ ctOptions' = 0 /\ parsed' = "over"
  /\ UNCHANGED <<client, called, default_key, appname>>
  /\ UNCHANGED <<nread, files, aborted, status, offset, bo, hbm, rd, wr, fault, poly, ct_rl>>

-----------------------------------------------------------------------------
(***************************************************************************)
(* Files.                                                                  *)
(***************************************************************************)
Lines(row)  == [n \in 0 .. PACK_FACTOR * PC * POLY_CC - 1 |-> <<row[n \div PACK_FACTOR], n % PACK_FACTOR>>]

InputOrder == <<"ct_2", "psi", "psi_inv", "rlk_0", "ct_0", "ct_1", "rlk_1">>

\* Lines there are of row r, and words that can be made of them.
LinesOf(o, r)   == IF <<o, r>> \in DOMAIN disk THEN disk[<<o, r>>] ELSE PACK_FACTOR * PC * POLY_CC
Bad(o, r)       == <<o, r>> \in DOMAIN disk
BadBefore(o, r) == \E b \in 0 .. r - 1 : Bad(o, b)

\* Mutant: a row of which too few lines are there is passed over.
ReadWordsOn(o, r) == LinesOf(o, r) \div PACK_FACTOR

\* readManyMemFileFlat reads row after row up to the first file that is short; of that it keeps
\* the words before the end, and returns -1, which main does not look at.
ReadWords(o, r) == IF BadBefore(o, r) THEN 0 ELSE LinesOf(o, r) \div PACK_FACTOR

\* A file that cannot be opened ends the program, if it gets there.
ReadFiles ==
  /\ At("read")
  /\ LET o == InputOrder[nread + 1] IN
     IF \E r \in DOMAIN vec[o] : LinesOf(o, r) = Missing /\ ~BadBefore(o, r)
     THEN status' = EXIT_FAILURE /\ UNCHANGED <<vec, nread, step>>
     ELSE /\ vec' = [vec EXCEPT ![o] = [r \in DOMAIN @ |-> ReadWords(o, r)]]
          /\ nread' = nread + 1
          /\ step' = IF nread' = Len(InputOrder) THEN "bo" ELSE step
          /\ UNCHANGED status
  /\ UNCHANGED <<parserVars, disk, files, aborted, offset, bo, hbm, rd, wr, fault, poly, ct_rl>>

PrepareBO ==
  /\ At("bo") /\ step' = "psi"
  /\ AllocateBuffers
  /\ UNCHANGED <<parserVars, hostVars, vec, offset, rd, wr, fault, poly, ct_rl>>

\* The row of host memory that goes into file f: of poly for the readback, else of ct_rl.
Contents(f) ==
  IF f[1] = "readback" THEN poly[f[2]] ELSE ct_rl[IF f[1] = "ct0_rl" THEN 0 ELSE 1][f[2]]

\* writeManyMemFileFlat, for one or two prefixes: the first n files are written, and if that is
\* not all of them the next one cannot be opened and the program ends.
WriteFiles(from, names, next, last) ==
  /\ At(from)
  /\ \E n \in 0 .. Len(names) :
       /\ files' = LET new == {names[k] : k \in 1 .. n}
                   IN [f \in new \cup DOMAIN files |-> IF f \in new THEN Lines(Contents(f)) ELSE files[f]]
       /\ step' = IF n = Len(names) THEN next ELSE step
       /\ status' = IF n < Len(names) THEN EXIT_FAILURE ELSE IF last THEN EXIT_SUCCESS ELSE status
  /\ UNCHANGED <<parserVars, disk, nread, aborted, vec, offset, bo, hbm, rd, wr, fault, poly, ct_rl>>

Readback    == << <<"readback", 0>>, <<"readback", 1>> >>
ResultFiles == [k \in 1 .. 2 * L |-> <<IF k =< L THEN "ct0_rl" ELSE "ct1_rl", (k - 1) % L>>]

WriteReadback == WriteFiles("write_poly", Readback, "kernel", FALSE)
WriteResults  == WriteFiles("write_ct_rl", ResultFiles, "end", TRUE)

-----------------------------------------------------------------------------
\* The steps of the buffers and of the device.
Move ==
  /\ Running /\ client = "main"
  /\ LayInputs \/ ReadBack \/ AdapterStep \/ ReadResults
  /\ UNCHANGED <<parserVars, hostVars>>

RunDone == At("kernel") /\ RunOver(TRUE) /\ UNCHANGED <<parserVars, hostVars>>

RunGivenUp ==
  /\ At("kernel") /\ RunOver(FALSE)
  /\ aborted' = TRUE
  /\ UNCHANGED <<parserVars, disk, nread, files, status>>

Next ==
  \/ Parse \/ Settings \/ OpenDevice \/ LoadXclbin \/ KernelTaken \/ OpenKernel
  \/ ReadFiles \/ PrepareBO \/ Move \/ WriteReadback \/ RunDone \/ RunGivenUp \/ WriteResults

Spec == Init /\ [][Next]_vars

-----------------------------------------------------------------------------
\* The words of file f as the program should have them.
Expected(f) ==
  CASE f[1] = "readback" -> Row("ct_2", f[2])
    [] f[1] = "ct0_rl"   -> File("out", <<0, f[2]>>)
    [] f[1] = "ct1_rl"   -> File("out", <<1, f[2]>>)

\* Every file the program writes is right line by line: the readback is what was read of ct2, written
\* split by channel and read chunk by chunk; a result is what the device wrote, unless it gave up the run.
HostReadsRight ==
  \A f \in DOMAIN files : f[1] = "readback" \/ ~aborted => files[f] = Lines(Expected(f))

\* A program that ends with 0 has written every file. It can have computed with inputs that were not
\* read in full; then everything behind the first short file of an object is zero, never another row's words.
SuccessIsWhole ==
  /\ status = EXIT_SUCCESS => \A k \in 1 .. 2 * L : ResultFiles[k] \in DOMAIN files
  /\ step = "bo" => \A o \in DOMAIN Rows : \A r, s \in DOMAIN vec[o] :
                       r < s /\ vec[o][s] > 0 => vec[o][r] = PC * POLY_CC
=============================================================================
