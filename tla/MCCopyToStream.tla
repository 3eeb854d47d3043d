--------------------------- MODULE MCCopyToStream ---------------------------
\* The instance of CopyToStream that TLC checks: see copy_to_stream.cfg.
EXTENDS CopyToStream, TLC

\* The file is written three times: the listed order of the files is the
\* reverse of the order they are built in; then two files import each other;
\* then one imports a file that is not in the set.
MCContents ==
  << << {2, 3}, {3}, {} >>, << {}, {3}, {2} >>, << {4}, {}, {1} >> >>

CONSTANTS s1, s2

\* A statement whose rows can be encoded, and one with a row that cannot.
MCRows == s1 :> <<TRUE, TRUE>> @@ s2 :> <<TRUE, FALSE, TRUE>>
==============================================================================
