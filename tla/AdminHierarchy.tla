--------------------------- MODULE AdminHierarchy ---------------------------
(***************************************************************************)
(* The admin_hierarchy account: the list of the super admins, which gates  *)
(* every administrative instruction of the program.  One action is one     *)
(* instruction; its first parameter is the wallet that signs it.           *)
(***************************************************************************)
EXTENDS SequencesExt

CONSTANTS
  Admins,          \* the wallets that take part in administration
  NoHierarchy,     \* what the PDA holds before `init` and after `close`
  MaxSuperAdmins   \* AdminHierarchy::MAX_SUPER_ADMINS, 10 in the program

ASSUME HierarchyAssumption ==
  /\ NoHierarchy \notin Seq(Admins)
  /\ MaxSuperAdmins \in Nat \ {0}

VARIABLE super_admins  \* the list, or NoHierarchy

Exists == super_admins # NoHierarchy
SuperAdmins == IF Exists THEN ToSet(super_admins) ELSE {}
IsSuperAdmin(w) == w \in SuperAdmins

AdminInit == super_admins = NoHierarchy

\* Open to whoever comes first, again after every close.
InitializeAdminHierarchy(signer) ==
  /\ ~Exists
  /\ super_admins' = <<signer>>

\* Without the test for AdminAlreadyExists.
FaultyAddSuperAdmin(signer, new_admin) ==
  /\ IsSuperAdmin(signer)
  /\ Len(super_admins) < MaxSuperAdmins
  /\ super_admins' = Append(super_admins, new_admin)

AddSuperAdmin(signer, new_admin) ==
  /\ IsSuperAdmin(signer)
  /\ Len(super_admins) < MaxSuperAdmins
  /\ ~IsSuperAdmin(new_admin)
  /\ super_admins' = Append(super_admins, new_admin)

\* The last super admin may go.
FaultyRemoveSuperAdmin(signer, admin_to_remove) ==
  /\ IsSuperAdmin(signer)
  /\ \E i \in DOMAIN super_admins :
       /\ super_admins[i] = admin_to_remove
       /\ super_admins' = RemoveAt(super_admins, i)

\* iter().position: the first entry goes, later ones would stay.
RemoveSuperAdmin(signer, admin_to_remove) ==
  /\ IsSuperAdmin(signer)
  /\ Len(super_admins) > 1
  /\ \E i \in DOMAIN super_admins :
       /\ super_admins[i] = admin_to_remove
       /\ \A j \in 1..(i - 1) : super_admins[j] # admin_to_remove
       /\ super_admins' = RemoveAt(super_admins, i)

CloseAdminHierarchy(signer) ==
  /\ IsSuperAdmin(signer)
  /\ super_admins' = NoHierarchy

AdminNext ==
  \/ \E w \in Admins : InitializeAdminHierarchy(w)
  \/ \E w, v \in Admins : AddSuperAdmin(w, v)
  \/ \E w, v \in Admins : RemoveSuperAdmin(w, v)
  \/ \E w \in Admins : CloseAdminHierarchy(w)

AdminSpec == AdminInit /\ [][AdminNext]_super_admins
-----------------------------------------------------------------------------
\* The list, when there is one, has between one and MaxSuperAdmins entries and
\* names nobody twice, through any sequence of additions, removals and closes.
\* (A second entry would let a removed admin stay in power.)
HierarchySound ==
  Exists => /\ super_admins \in Seq(Admins)
            /\ Len(super_admins) \in 1..MaxSuperAdmins
            /\ IsInjective(super_admins)

\* add_super_admin gives the role to one wallet that had it not, and
\* remove_super_admin takes it from one wallet for good: the set of those who
\* hold power changes by exactly what the list gains or loses, and somebody who
\* held power before always holds it after.
RolesFollowList ==
  [][Exists /\ Exists' =>
       /\ \E w \in Admins :
            \/ SuperAdmins' = SuperAdmins \cup {w} /\ w \notin SuperAdmins
            \/ SuperAdmins' = SuperAdmins \ {w} /\ w \in SuperAdmins
       /\ SuperAdmins \cap SuperAdmins' # {}]_super_admins
=============================================================================
