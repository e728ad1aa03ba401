----------------------------- MODULE MCFitsEditor ------------------------------
(***************************************************************************)
(* Files and headers for FitsEditor.  The files: a signed extension after  *)
(* a primary with no free record, the same with bytes after it, one cut    *)
(* short in its data, and a primary with data and spare records.           *)
(***************************************************************************)
EXTENDS FitsEditor

Primary == RenderInto(<<Open(FALSE, FALSE, 0), Card(1)>>, Unsigned, 0)
Unit2 == Data(2) \o Fill(Zero, Padding(2))
Signed2 == RenderInto(<<Open(TRUE, FALSE, 2)>>, WithDataSum(Unit2), 0) \o Unit2

MCFiles ==
    { Primary \o Signed2,
      Primary \o Signed2 \o <<Zero>>,
      SubSeq(Primary \o Signed2, 1, Len(Primary \o Signed2) - 2),
      RenderInto(<<Open(FALSE, FALSE, 2)>>, Unsigned, 2) \o Unit2 }

MCHeaders ==
    { <<Open(FALSE, FALSE, 0)>>,
      <<Open(FALSE, FALSE, 0), Card(2), Card(3)>>,
      <<Card(1), Open(FALSE, FALSE, 0)>>,
      <<Open(FALSE, FALSE, 2), Card(1), Placeholder>>,
      <<Open(TRUE, FALSE, 2), Placeholder, Card(1)>>,
      <<Open(TRUE, FALSE, 2), Card(1), Datasum(Unit2), Placeholder>>,
      <<Open(TRUE, FALSE, 2), Datasum(Data(1)), Placeholder>>,
      <<Card(1), Open(TRUE, FALSE, 2)>>,
      <<Open(TRUE, TRUE, 2)>>,
      <<Open(TRUE, FALSE, 1)>> }

\* The sums of the files hold, as SumsStay takes them to.
ASSUME MCFilesSound == FilesSound
================================================================================
