---------------------------- MODULE MCSideBySide ----------------------------
(***************************************************************************)
(* Three components that share no state, checked in one run: the cipher   *)
(* registry (MCCipherRegistry), the HTTP Digest helpers with supported     *)
(* algorithms and qop values (MCHttpDigest) and the D-Bus pointer          *)
(* registry (MCDBusServer).  The initial state picks one of them (use) and *)
(* only that one moves; the others stay in one initial state each, so the  *)
(* run explores the three state spaces side by side rather than their      *)
(* product.  Each component's constants are those of its own MC module.    *)
(* The MSN nexus login (MCNexus) is a further choice of the same kind.     *)
(* A fourth choice, "pure", takes no step: its initial states are the      *)
(* inputs of the two pure functions of dbus-server.c (sigName, argCall),   *)
(* so each input is one state that the invariants compare against the     *)
(* reference definitions.                                                  *)
(***************************************************************************)
EXTENDS Sequences, SequencesExt

CONSTANTS NULL, Null, CipherIds, Ctx, Nodes, IdBits, MaxRegs

VARIABLES use,
          ciphers, allocated, name, ref, ctxCipher, listFreed, ops, lastCall,
          pc, fn, args, ctx, live, hash2, md5, ret,
          nodeId, idNode, idType, lastId, conn, initErr, alive, regs,
          result, sent,
          sigName, argCall,
          nexus, frees, sessNexus, soap, readCb, challenge, passport,
          loginStep, authError, discPending, cert, nullArgs

(* The MC modules' data definitions do not depend on the constants they *)
(* are given here; the first instance of each is only read for them.    *)
RD == INSTANCE MCCipherRegistry WITH Names <- {}, NameKey <- <<>>,
                                     Builtins <- <<>>, OpsOf <- <<>>,
                                     DispatchOps <- {}
HD == INSTANCE MCHttpDigest WITH SessionCalls <- {}, ResponseCalls <- {}
DD == INSTANCE MCDBusServer WITH Types <- {}, CreateTypes <- {},
                                 SignalNames <- {}, MethodCalled <- <<>>
ND == INSTANCE MCNexus WITH ChallengeTables <- {}, Replies <- {}

R == INSTANCE MCCipherRegistry WITH Names <- RD!MCNames, NameKey <- RD!MCNameKey,
                                    Builtins <- RD!MCBuiltins, OpsOf <- RD!MCOpsOf,
                                    DispatchOps <- RD!MCDispatchOps
H == INSTANCE MCHttpDigest WITH SessionCalls <- HD!MCSessionCalls,
                                ResponseCalls <- HD!MCResponseCalls
D == INSTANCE MCDBusServer WITH Types <- DD!MCTypes,
                                CreateTypes <- DD!MCCreateTypes,
                                SignalNames <- DD!MCSignalNames,
                                MethodCalled <- DD!MCMethodCalled
X == INSTANCE MCNexus WITH ChallengeTables <- ND!MCChallengeTables,
                           Replies <- ND!MCReplies

regVars  == <<ciphers, allocated, name, ref, ctxCipher, listFreed, ops, lastCall>>
httpVars == <<pc, fn, args, ctx, live, hash2, md5, ret>>
dbusVars == <<nodeId, idNode, idType, lastId, conn, initErr, alive, regs,
              result, sent>>
pureVars == <<sigName, argCall>>
nexusVars == <<nexus, frees, sessNexus, soap, readCb, challenge, passport,
               loginStep, authError, discPending, cert, nullArgs>>
allVars  == <<use, regVars, httpVars, dbusVars, pureVars, nexusVars>>

(* Every gaim signal name of up to four characters (lower and upper      *)
(* letters, '-' and '_'), and every argument specification with every    *)
(* message of up to three D-Bus arguments.                                *)
SignalNameInputs == BoundedSeq({"a", "b", "A", "-", "_"}, 4)
ArgCallInputs    == [spec : BoundedSeq(D!ArgTypes, 3), msg : BoundedSeq(D!ArgTypes, 3)]
NoCall           == [spec |-> <<>>, msg |-> <<>>]

Init ==
  /\ use \in {"cipher", "http", "dbus", "pure", "nexus"}
  /\ R!Init /\ H!Init /\ D!Init /\ X!Init
  /\ use # "http" => md5
  /\ use # "dbus" => initErr = Null
  /\ use # "nexus" => challenge = ND!AllKeys
  /\ IF use = "pure"
     THEN \/ sigName \in SignalNameInputs /\ argCall = NoCall
          \/ sigName = <<>> /\ argCall \in ArgCallInputs
     ELSE sigName = <<>> /\ argCall = NoCall

Next ==
  \/ use = "cipher" /\ R!Next /\ UNCHANGED <<use, httpVars, dbusVars, pureVars, nexusVars>>
  \/ use = "http"   /\ H!Next /\ UNCHANGED <<use, regVars, dbusVars, pureVars, nexusVars>>
  \/ use = "dbus"   /\ D!Next /\ UNCHANGED <<use, regVars, httpVars, pureVars, nexusVars>>
  \/ use = "nexus"  /\ X!Next /\ UNCHANGED <<use, regVars, httpVars, dbusVars, pureVars>>

Spec == Init /\ [][Next]_allVars

TypeOK             == R!TypeOK
UniqueNames        == R!UniqueNames
RefCountExact      == R!RefCountExact
NoFreeUnderContext == R!NoFreeUnderContext
NoContextLeak      == H!NoContextLeak
ResultMatchesRfc   == H!ResultMatchesRfc
TablesConsistent   == D!TablesConsistent
ResolveSound       == D!ResolveSound
FreedOnce          == X!FreedOnce
ErrorExcludesLogin == X!ErrorExcludesLogin

(* The D-Bus member name gaim_dbus_convert_signal_name makes of a gaim    *)
(* signal name, with leading, trailing and repeated separators, is the   *)
(* CamelCase name: the capitalize_next flag is set and reset at the      *)
(* right characters.                                                      *)
SignalNameMatchesReference ==
  D!ConvertSignalName(sigName) = D!ReferenceSignalName(sigName)

(* gaim_dbus_message_get_args accepts a message exactly when it carries   *)
(* the specified arguments: it neither refuses a message with exactly     *)
(* the specified arguments or more, nor accepts one with fewer or with a  *)
(* mismatch before the first container.                                   *)
GetArgsMatchesReference ==
  D!GetArgs(argCall.spec, argCall.msg) = D!ReferenceGetArgs(argCall.spec, argCall.msg)
=============================================================================
