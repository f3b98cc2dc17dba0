----------------------------- MODULE SigningKey -----------------------------
(***************************************************************************)
(* The Ed25519 key pair that signs provenance records: fss_core            *)
(* integrity.py, ensure_signing_key_pair, as load_signing_key calls it for *)
(* every record of a success and for every request of the JWKS.            *)
(*                                                                         *)
(* The pair lives in two files of FSS_KEY_DIR, written one after the       *)
(* other, each truncated before it is written.  The call runs on the event *)
(* loop without a break, so only what is outside the process can come      *)
(* between its steps: a failing write, a crash, an operator.  One server   *)
(* process per directory is assumed.                                       *)
(***************************************************************************)
CONSTANTS
  Keys,     \* key pairs; a file holds a half of one
  Absent,   \* no such file
  Partial   \* a file cut short, or damaged

ASSUME FileStates == Absent # Partial /\ Absent \notin Keys /\ Partial \notin Keys

VARIABLES
  priv,    \* priv.pem
  pub,     \* pub.pem
  writer,  \* how far the generation has come, and the key it writes
  used,    \* keys that exist or existed: generation never repeats one
  signed   \* history: keys that signed a record since the directory was empty

keyVars == <<priv, pub, writer, used, signed>>

File == Keys \cup {Absent, Partial}
Idle == [at |-> "idle"]
Writing(step, k) == [at |-> step, key |-> k]
Exists(file) == file # Absent

(* A directory is empty, or an operator has put there what he has.         *)
KeyInit ==
  /\ priv \in File
  /\ pub \in File
  /\ priv \in Keys /\ pub \in Keys => priv = pub
  /\ used = {priv, pub} \cap Keys
  /\ writer = Idle
  /\ signed = {}

(* Both files exist: the private half is read, and it alone.               *)
LoadKey ==
  /\ writer = Idle
  /\ Exists(priv) /\ Exists(pub)
  /\ priv \in Keys
  /\ signed' = signed \cup {priv}
  /\ UNCHANGED <<priv, pub, writer, used>>

(* A damaged private key, or one file without the other: no key, and the   *)
(* record goes out unsigned.                                               *)
Refuse ==
  /\ writer = Idle
  /\ \/ Exists(priv) /\ Exists(pub) /\ priv \notin Keys
     \/ Exists(priv) # Exists(pub)
  /\ UNCHANGED keyVars

(* A seeded fault: a lone file is taken for an empty directory.            *)
GenerateIfIncomplete ==
  /\ writer = Idle
  /\ ~ (Exists(priv) /\ Exists(pub))
  /\ \E k \in Keys \ used :
       /\ writer' = Writing("open_priv", k)
       /\ used' = used \cup {k}
  /\ UNCHANGED <<priv, pub, signed>>

(* Neither file exists, whether the records are evidentiary or not.        *)
Generate ==
  /\ writer = Idle
  /\ ~ Exists(priv) /\ ~ Exists(pub)
  /\ \E k \in Keys \ used :
       /\ writer' = Writing("open_priv", k)
       /\ used' = used \cup {k}
  /\ UNCHANGED <<priv, pub, signed>>

OpenPriv ==
  /\ writer.at = "open_priv"
  /\ priv' = Partial
  /\ writer' = Writing("write_priv", writer.key)
  /\ UNCHANGED <<pub, used, signed>>

WritePriv ==
  /\ writer.at = "write_priv"
  /\ priv' = writer.key
  /\ writer' = Writing("open_pub", writer.key)
  /\ UNCHANGED <<pub, used, signed>>

OpenPub ==
  /\ writer.at = "open_pub"
  /\ pub' = Partial
  /\ writer' = Writing("write_pub", writer.key)
  /\ UNCHANGED <<priv, used, signed>>

WritePub ==
  /\ writer.at = "write_pub"
  /\ pub' = writer.key
  /\ writer' = Writing("return", writer.key)
  /\ UNCHANGED <<priv, used, signed>>

(* The generated key is returned, and signs the record that asked for it.  *)
Return ==
  /\ writer.at = "return"
  /\ signed' = signed \cup {writer.key}
  /\ writer' = Idle
  /\ UNCHANGED <<priv, pub, used>>

(* A seeded fault: a key that was not saved signs all the same.            *)
InterruptSigning ==
  /\ writer # Idle
  /\ writer' = Idle
  /\ signed' = signed \cup {writer.key}
  /\ UNCHANGED <<priv, pub, used>>

(* A step fails with an OSError, or the process dies: what was written so  *)
(* far stays, the key in memory does not.                                  *)
Interrupt ==
  /\ writer # Idle
  /\ writer' = Idle
  /\ UNCHANGED <<priv, pub, used, signed>>

(* The operator loses the public file, or follows the log ("Remove both to *)
(* trigger auto-generation") and gives up the records signed so far.       *)
LosePub ==
  /\ writer = Idle /\ Exists(pub) /\ Exists(priv)
  /\ pub' = Absent
  /\ UNCHANGED <<priv, writer, used, signed>>

RemoveBoth ==
  /\ writer = Idle
  /\ priv' = Absent /\ pub' = Absent
  /\ signed' = {}
  /\ UNCHANGED <<writer, used>>

GenerationStep == Generate \/ OpenPriv \/ WritePriv \/ OpenPub \/ WritePub \/ Return
KeyNext == LoadKey \/ Refuse \/ GenerationStep \/ Interrupt \/ LosePub \/ RemoveBoth

KeySpec == KeyInit /\ [][KeyNext]_keyVars
-----------------------------------------------------------------------------
Step(s) == writer.at = s

TypeOK ==
  /\ priv \in File /\ pub \in File
  /\ used \subseteq Keys /\ signed \subseteq used
  /\ {priv, pub} \cap Keys \subseteq used
  /\ writer = Idle \/ (writer.at \in {"open_priv", "write_priv", "open_pub", "write_pub", "return"}
                        /\ writer.key \in used
                        /\ writer = Writing(writer.at, writer.key))

(* What is on disk while a pair is being written.                          *)
Progress ==
  /\ Step("open_priv") => priv = Absent /\ pub = Absent
  /\ Step("write_priv") => priv = Partial /\ pub = Absent
  /\ Step("open_pub") => priv = writer.key /\ pub = Absent
  /\ Step("write_pub") => priv = writer.key /\ pub = Partial
  /\ Step("return") => priv = writer.key /\ pub = writer.key
  /\ writer # Idle => signed = {}

(* "so old records stay verifiable" (ensure_signing_key_pair): whatever    *)
(* was signed since the directory was last empty was signed with the       *)
(* private key that is in it now, through crashes, failed writes and the   *)
(* loss of the public file.                                                *)
RecordsVerifiable == signed \subseteq {priv}

(* Two halves on disk are halves of the same pair.                         *)
NeverMismatched == priv \in Keys /\ pub \in Keys => priv = pub

(* The inductive invariant.                                                *)
Inv == TypeOK /\ Progress /\ RecordsVerifiable /\ NeverMismatched

(* The server never replaces or removes a file it did not start to write:  *)
(* a key that is there, complete or not, is only the operator's to touch.  *)
FilesUntouched ==
  [][~ RemoveBoth /\ ~ LosePub =>
       /\ priv' # priv => priv = Absent \/ (writer.at = "write_priv" /\ priv' = writer.key)
       /\ pub' # pub => pub = Absent \/ (writer.at = "write_pub" /\ pub' = writer.key)]_keyVars
=============================================================================
