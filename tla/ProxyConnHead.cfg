CONSTANTS
  Configs <- MCSimple
  Conn = c1
SPECIFICATION ConnSpec
INVARIANT HeadHasNoBody
