-------------------------------- MODULE Proxy --------------------------------
(* contracts/proxy: a contract that replaces its own code, with an admin that  *)
(* hands over in two steps. A caller is the address that signs the call.       *)
EXTENDS Naturals

CONSTANTS Account, Nobody,  \* an address that signs; a storage key not set
          Wasm, NoWasm,
          MaxVersion        \* u32::MAX, where checked_add refuses; a bound of the model

ASSUME ProxyAssumption == Nobody \notin Account /\ MaxVersion \in Nat \ {0}

VARIABLES admin, pendingAdmin, version, implHash,   \* instance storage
          running,        \* the code the host runs
          nominatedBy     \* history: the admin that signed the pending nomination

proxyVars == <<admin, pendingAdmin, version, implHash, running, nominatedBy>>

\* Deployed with some code and not initialised: version() is then 0.
ProxyInit ==
  /\ admin = Nobody /\ pendingAdmin = Nobody /\ version = 0 /\ implHash = NoWasm
  /\ running \in Wasm /\ nominatedBy = Nobody

\* initialize stores the hash it is given; nothing compares it with the code.
ProxyInitialize(a, hash) ==
  /\ admin = Nobody
  /\ admin' = a /\ version' = 1 /\ implHash' = hash
  /\ UNCHANGED <<pendingAdmin, running, nominatedBy>>

Upgrade(caller, wasm) ==
  /\ admin # Nobody /\ caller = admin
  /\ version < MaxVersion
  /\ running' = wasm
  /\ version' = version + 1 /\ implHash' = wasm
  /\ UNCHANGED <<admin, pendingAdmin, nominatedBy>>

\* A second nomination replaces the first.
TransferAdmin(caller, new) ==
  /\ admin # Nobody /\ caller = admin
  /\ pendingAdmin' = new /\ nominatedBy' = caller
  /\ UNCHANGED <<admin, version, implHash, running>>

\* Accepting without removing the nomination.
AcceptAdminKeeping(caller) ==
  /\ pendingAdmin # Nobody /\ caller = pendingAdmin
  /\ admin' = pendingAdmin
  /\ UNCHANGED <<pendingAdmin, version, implHash, running, nominatedBy>>

AcceptAdmin(caller) ==
  /\ pendingAdmin # Nobody /\ caller = pendingAdmin
  /\ admin' = pendingAdmin /\ pendingAdmin' = Nobody
  /\ UNCHANGED <<version, implHash, running, nominatedBy>>

ProxyNext ==
  \E c \in Account :
    \/ \E h \in Wasm : ProxyInitialize(c, h)
    \/ \E w \in Wasm : Upgrade(c, w)
    \/ \E a \in Account : TransferAdmin(c, a)
    \/ AcceptAdmin(c)

ProxySpec == ProxyInit /\ [][ProxyNext]_proxyVars

ProxyTypeOK ==
  /\ admin \in Account \cup {Nobody} /\ pendingAdmin \in Account \cup {Nobody}
  /\ version \in 0..MaxVersion /\ implHash \in Wasm \cup {NoWasm}
  /\ running \in Wasm /\ nominatedBy \in Account \cup {Nobody}

(* Who can accept was named by the admin of this moment, never by one that has *)
(* handed over since; and after the first upgrade the stored hash is that of   *)
(* the code that runs (transfer_admin, accept_admin, upgrade).                 *)
ProxyOwned ==
  /\ pendingAdmin # Nobody => admin # Nobody /\ nominatedBy = admin
  /\ version > 1 => implHash = running
  /\ admin = Nobody <=> version = 0
=============================================================================
