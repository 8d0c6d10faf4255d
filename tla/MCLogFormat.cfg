\* A written line is not the one-pass expansion of its template.
CONSTANTS
    Fields <- MCFields
    Nginx <- MCNginx
    Apache <- MCApache
    Formats <- MCFormats
    Lower <- MCLower
    CustomTpls <- MCCustomTpls
    Logs <- MCLogs
    MaxLines = 2
SPECIFICATION Spec
INVARIANT LinesExpandTemplate
