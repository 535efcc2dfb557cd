------------------------------ MODULE Identity ------------------------------
(***************************************************************************)
(* The sender identity every CoreMessage carries in its envelope           *)
(* (WindowsProtobufLib/utils.cpp): the OS version and the machine ID that *)
(* initProtobufLibrary computes once per process.                         *)
(*                                                                         *)
(* The machine ID is SHA256 of "<bios UUID>+<MachineGuid>" read back as a  *)
(* UUID.  SHA256 is taken as injective, so an ID is the pair of the two    *)
(* parsed UUIDs.  The firmware decides the bios part:                      *)
(*   "v2.6"   SMBIOS 2.6 or later, a UUID set in the type-1 structure;    *)
(*   "legacy" SMBIOS before 2.6, a UUID set;                               *)
(*   "blank"  the UUID is all 0x00 or all 0xFF;                            *)
(*   "absent" GetSystemFirmwareTable fails or the table's Length is off.   *)
(***************************************************************************)

Firmwares == {"v2.6", "legacy", "blank", "absent"}

\* dmi_system_uuid(p, ver): nullptr for a UUID of only 0x00 or only 0xFF;
\* for ver >= 0x0206 the canonical text (first three fields byte-swapped);
\* before that a text with a '-' in front of the 36 characters.
DmiSystemUuid(fw) ==
    CASE fw = "blank"  -> "nullptr"
      [] fw = "v2.6"   -> "uuid"
      [] fw = "legacy" -> "-uuid"

\* GetDMIUUID: nullptr when the firmware table cannot be read or its
\* Length disagrees with the buffer, else dmi_system_uuid of the type-1
\* structure.
GetDMIUUID(fw) == IF fw = "absent" THEN "nullptr" ELSE DmiSystemUuid(fw)

\* UuidFromStringA into the local UUID bios: NULL yields the nil UUID; a
\* well-formed text yields its UUID; a malformed one fails, and with the
\* assert compiled out (NDEBUG) bios keeps whatever the stack held, here
\* the value garbage.
UuidFromString(s, garbage) ==
    CASE s = "nullptr" -> "nil"
      [] s = "uuid"    -> "bios"
      [] s = "-uuid"   -> garbage

\* GetProductID: the MachineGuid value under SOFTWARE\Microsoft\Cryptography,
\* a well-formed UUID text that UuidFromStringA parses.
GetProductID == "product"

\* MachineID: both UUIDs parsed and printed back, joined with '+',
\* hashed.
MachineID(fw, garbage) == <<UuidFromString(GetDMIUUID(fw), garbage), GetProductID>>

\* The machine IDs a process on this machine can compute, over every
\* value the uninitialised UUID can hold.
MachineIDs(fw, Garbage) == {MachineID(fw, g) : g \in Garbage}

=============================================================================
