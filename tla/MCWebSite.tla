------------------------------ MODULE MCWebSite ------------------------------
\* Instances of WebSite for TLC; the constants are in SiteEverything.cfg.
EXTENDS WebSite

=============================================================================
