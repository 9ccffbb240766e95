----------------------------- MODULE MCInstaller -----------------------------
(* Two releases, so that what an update found and what it fetches differ.  *)
EXTENDS Installer
=============================================================================
